---- MODULE Spec2Model ----
(***************************************************************************)
(* Model of the mailbox synchronisation and connection-management core of  *)
(* maily (src/tauri/src-tauri/src/imap_queue.rs, mail.rs, lib.rs):         *)
(*   - the per-account IMAP connection pool,                               *)
(*   - the per-account operation queue and its batching worker,            *)
(*   - the sync pass over the local cache,                                 *)
(*   - the optimistic delete commands of the UI layer,                     *)
(*   - the paginated list and save_email_to_db, statement by statement,    *)
(*   - delete_email_from_cache, update_email_read_status and               *)
(*     get_account_sender, statement by statement,                         *)
(*   - sync_emails_with_session and sync_emails_improved side by side,     *)
(*   - the pool-map, pool-entry and store locks together,                  *)
(*   - the attachment rows under upsert, delete and eviction.              *)
(***************************************************************************)
EXTENDS Integers, Sequences, FiniteSets, TLC

(***************************************************************************)
(* Bounds of the model.                                                    *)
(***************************************************************************)
\* number of threads that each make one pool call (with_imap_connection or
\* sync_with_pool)
NumCallers == 2
\* how many times close_all_connections is run
MaxCloseAll == 1
\* largest message id (UID) of a mailbox
MaxUid == 2
\* MIN_SYNC_EMAILS (mail.rs:16, 100 in the program), scaled down
MIN_SYNC_EMAILS == 1
\* the chunk size of the download loop (50 in the program), scaled down
FETCH_CHUNK == 1
\* PREFETCH_BODY_COUNT (mail.rs:20, 10 in the program), scaled down
PREFETCH_BODY_COUNT == 1
\* SYNC_DAYS (mail.rs:18)
SYNC_DAYS == 14
\* how many commands that submit an intent are issued
MaxSubmit == 2
\* how many delete commands are issued beside a sync_emails command
MaxDelete == 1
\* capacity of an account's channel (imap_queue.rs:238, 100 in the
\* program), scaled down
CHANNEL_CAPACITY == 1

Accounts == {"a1", "a2"}
Mailboxes == {"INBOX", "Archive"}
Callers == 1..NumCallers
\* a pool entry is an Arc<Mutex<PooledConnection>>; every caller can create at
\* most one, so NumCallers identifiers suffice
EntryIds == 1..NumCallers
NoEntry == 0
NoSession == 0
NoOwner == 0
Closer == "closer"
Unlocked == "unlocked"

(***************************************************************************)
(* Error texts.  An error is identified by a short name; ErrorText gives   *)
(* the characters of the message that Display produces for it.             *)
(***************************************************************************)
ErrorIds == {"eof", "denied"}

ErrorText(e) ==
    CASE e = "eof"    -> <<"u","n","e","x","p","e","c","t","e","d"," ","E","O","F">>
      [] e = "denied" -> <<"N","o"," ","R","e","s","p","o","n","s","e",":"," ",
                           "P","e","r","m","i","s","s","i","o","n"," ",
                           "d","e","n","i","e","d">>

UpperToLower ==
    "A" :> "a" @@ "B" :> "b" @@ "C" :> "c" @@ "D" :> "d" @@ "E" :> "e" @@
    "F" :> "f" @@ "G" :> "g" @@ "H" :> "h" @@ "I" :> "i" @@ "J" :> "j" @@
    "K" :> "k" @@ "L" :> "l" @@ "M" :> "m" @@ "N" :> "n" @@ "O" :> "o" @@
    "P" :> "p" @@ "Q" :> "q" @@ "R" :> "r" @@ "S" :> "s" @@ "T" :> "t" @@
    "U" :> "u" @@ "V" :> "v" @@ "W" :> "w" @@ "X" :> "x" @@ "Y" :> "y" @@
    "Z" :> "z"

\* str::to_lowercase on a sequence of characters
to_lowercase(s) ==
    [i \in 1..Len(s) |-> IF s[i] \in DOMAIN UpperToLower THEN UpperToLower[s[i]]
                                                         ELSE s[i]]

\* str::contains: needle occurs as a contiguous substring of hay
contains(hay, needle) ==
    \E i \in 1..(Len(hay) - Len(needle) + 1) :
        SubSeq(hay, i, i + Len(needle) - 1) = needle

\* the substrings is_connection_error looks for
ConnectionMarkers ==
    { <<"c","l","o","s","e","d">>,
      <<"r","e","s","e","t">>,
      <<"b","r","o","k","e","n"," ","p","i","p","e">>,
      <<"e","o","f">>,
      <<"c","o","n","n","e","c","t","i","o","n">>,
      <<"t","i","m","e","d"," ","o","u","t">>,
      <<"b","y","e">> }

\* imap_queue.rs is_connection_error, on the characters of the message
is_connection_error(err) ==
    LET err_lower == to_lowercase(err)
    IN  \E m \in ConnectionMarkers : contains(err_lower, m)

Ok == [ok |-> TRUE, err |-> "none"]
Err(e) == [ok |-> FALSE, err |-> e]
NoResult == [ok |-> FALSE, err |-> "unset"]
Results == {Ok} \cup {Err(e) : e \in ErrorIds}

\* a Result whose error text is classified as a broken connection
ConnectionClass == {e \in ErrorIds : is_connection_error(ErrorText(e))}
IsConnErr(r) == ~r.ok /\ r.err \in ConnectionClass

(***************************************************************************)
(* State.                                                                  *)
(***************************************************************************)
VARIABLES
    \* ---- connection pool (imap_queue.rs) ----
    CONNECTION_POOL,   \* the map account -> pool entry (NoEntry: no key)
    poolLock,          \* holder of the CONNECTION_POOL mutex across steps
    entries,           \* the PooledConnection objects, by entry id
    sessions,          \* every session ever opened through the pool
    callers,           \* the threads calling with_imap_connection/sync_with_pool
    callLog,           \* finished pool calls, in the order they returned
    closer,            \* the thread running close_all_connections
    drained,           \* entries close_all_connections still has to visit
    \* ---- remote mailboxes and the local database (mail.rs) ----
    remote,            \* account -> mailbox -> messages in sequence order
    emails,            \* the emails table: (account, mailbox, uid) -> row
    mailbox_metadata,  \* the (account, mailbox) keys that have a bookmark
    op_logs,           \* the op_logs table, in insertion order
    pass,              \* the sync pass each runner is executing
    \* ---- operation queue (imap_queue.rs) ----
    ACCOUNT_QUEUES,    \* the accounts that have a sender and a worker
    channel,           \* account -> the intents sent and not yet received
    pending_ops,       \* account -> the worker's map key -> intent
    worker,            \* account -> where its worker is
    submitted,         \* how many intents were submitted so far
    received,          \* account -> the intents received, in order
    remoteCalls,       \* account -> the remote operations run, in order
    emitted,           \* account -> the notifications sent to the listener
    \* ---- callers of the cache (mail.rs) ----
    attachments,       \* the attachments table: primary key -> content
    saving,            \* the save_email_to_db call that holds the DB lock
    loaded,            \* what the last get_email returned
    reader,            \* the pages a list reader has got so far
    removal,           \* the last delete_email_from_cache call
    marking,           \* the update_email_read_status call
    spawner            \* the get_account_sender calls and the workers spawned

poolVars == <<CONNECTION_POOL, poolLock, entries, sessions, callers, callLog,
              closer, drained>>
storeVars == <<remote, emails, mailbox_metadata, op_logs, pass>>

queueVars == <<ACCOUNT_QUEUES, channel, pending_ops, worker, submitted,
               received, remoteCalls, emitted>>

viewVars == <<attachments, saving, loaded, reader, removal,
              marking, spawner>>

vars == <<poolVars, storeVars, queueVars, viewVars>>

(***************************************************************************)
(* Remote mailboxes and the local database.                                *)
(***************************************************************************)
\* message ids (UIDs) of one mailbox
Uids == 1..MaxUid

\* age of a message in days: inside or outside the SYNC_DAYS window
Ages == {0, SYNC_DAYS + 1}

\* a message on the server; parses: mailparse accepts its RFC822 text
Message(u, sn, ag, ps) == [uid |-> u, seen |-> sn, age |-> ag, parses |-> ps]

\* a row of the emails table (the columns the sync pass reads or writes);
\* body: body_html is not empty
Row(un, bd, ag) == [unread |-> un, body |-> bd, age |-> ag]

\* the runners of a sync pass: the worker of each account and the thread
\* of the sync_emails command
UiThread == "ui"
Runners == Accounts \cup {UiThread}

IdlePass == [pc |-> "idle", variant |-> "session", acct |-> "a1",
             mailbox |-> "INBOX", total |-> 0, all_emails |-> <<>>,
             fetched_uids |-> {}, recent_uids |-> {}, server_uids |-> {},
             cached_uids |-> {}, new_uids |-> <<>>, fetched |-> <<>>,
             new_count |-> 0, search_failed |-> FALSE,
             before |-> [u \in {} |-> FALSE], issued |-> {},
             db |-> FALSE, held |-> {}, sent |-> 0, plan |-> {},
             start |-> << >>,
             updated_count |-> 0, deleted_count |-> 0, result |-> NoResult]

EmptyTable == [k \in {} |-> Row(FALSE, FALSE, 0)]

\* the uids cached for one mailbox of one account
get_cached_uids(tbl, a, m) ==
    {u \in Uids : <<a, m, u>> \in DOMAIN tbl}

\* no bookmark is written
skip_mailbox_metadata(meta, a, m) == meta

\* INSERT OR REPLACE of the bookmark of one mailbox (its uid_validity and
\* last_sync columns are not followed)
save_mailbox_metadata(meta, a, m) == meta \cup {<<a, m>>}

\* the unread flag of every row cached for the mailbox when a pass starts
\* (kept with the pass only to state what its counts are counts of)
Before(tbl, a, m) ==
    [u \in get_cached_uids(tbl, a, m) |-> tbl[<<a, m, u>>].unread]

\* INSERT OR REPLACE of one row
save_email_to_db(tbl, a, m, u, row) ==
    [k \in DOMAIN tbl \cup {<<a, m, u>>} |->
        IF k = <<a, m, u>> THEN row ELSE tbl[k]]

\* DELETE of every row of the mailbox
delete_mailbox_rows(tbl, a, m, u) ==
    [k \in {j \in DOMAIN tbl : ~(j[1] = a /\ j[2] = m)} |-> tbl[k]]

\* DELETE of one row (no row: nothing happens)
delete_email_from_cache(tbl, a, m, u) ==
    [k \in DOMAIN tbl \ {<<a, m, u>>} |-> tbl[k]]

\* DELETE of the rows of (a, m) whose uid is not in server_uids
delete_stale_emails(tbl, a, m, server_uids) ==
    [k \in {j \in DOMAIN tbl :
              ~(j[1] = a /\ j[2] = m /\ j[3] \notin server_uids)} |-> tbl[k]]

\* the attachment rows ON DELETE CASCADE leaves when delete_stale_emails
\* deletes the rows of tbl: those of the deleted rows are gone
cascade_stale_emails(att, tbl, a, m, server_uids) ==
    [k \in {j \in DOMAIN att :
              ~(/\ <<j[1], j[2], j[3]>> \in DOMAIN tbl
                /\ j[1] = a /\ j[2] = m /\ j[3] \notin server_uids)} |->
        att[k]]

\* UPDATE ... SET body_html of one row (no row: nothing happens)
update_email_body_in_db(tbl, a, m, u) ==
    [k \in DOMAIN tbl |->
        IF k = <<a, m, u>> THEN [tbl[k] EXCEPT !.body = TRUE] ELSE tbl[k]]

\* UPDATE ... SET unread of one row (no row: nothing happens)
update_unread(tbl, a, m, u, un) ==
    [k \in DOMAIN tbl |->
        IF k = <<a, m, u>> THEN [tbl[k] EXCEPT !.unread = un] ELSE tbl[k]]

\* one row of op_logs
log_op(a, m, operation, u, status, error) ==
    [account |-> a, mailbox |-> m, operation |-> operation, uid |-> u,
     status |-> status, error |-> error]

\* nothing stored, nothing on the server, no sync pass running
InitStoreIdle ==
    /\ remote = [a \in Accounts |-> [m \in Mailboxes |-> <<>>]]
    /\ emails = EmptyTable
    /\ mailbox_metadata = {}
    /\ op_logs = <<>>
    /\ pass = [r \in Runners |-> IdlePass]

(***************************************************************************)
(* The operation queue before any intent is submitted.                     *)
(***************************************************************************)
\* no intent: the value of a worker field that holds none
NoOp == [kind |-> "none", mailbox |-> "none", uid |-> 0, unread |-> FALSE,
         seq |-> 0]

\* an empty pending map
EmptyMap == [k \in {} |-> NoOp]

\* a worker waiting on its channel with nothing pending
IdleWorker == [pc |-> "recv", batch |-> EmptyMap, cur |-> NoOp,
               curResult |-> NoResult, after |-> NoOp, window |-> 1]

InitQueueIdle ==
    /\ ACCOUNT_QUEUES = {}
    /\ channel = [a \in Accounts |-> <<>>]
    /\ pending_ops = [a \in Accounts |-> EmptyMap]
    /\ worker = [a \in Accounts |-> IdleWorker]
    /\ submitted = 0
    /\ received = [a \in Accounts |-> <<>>]
    /\ remoteCalls = [a \in Accounts |-> <<>>]
    /\ emitted = [a \in Accounts |-> <<>>]

(***************************************************************************)
(* Callers of the cache, when none is active.                              *)
(***************************************************************************)
\* no attachment row
NoAttachments == [k \in {} |-> 0]

\* no save_email_to_db call is running and the DB lock is free
IdleSaving == [pc |-> "idle", acct |-> "a1", mailbox |-> "INBOX", uid |-> 0,
               row |-> Row(FALSE, FALSE, 0), parts |-> <<>>, i |-> 0,
               result |-> NoResult, calls |-> 0,
               \* kept only to state the properties of a call: the
               \* attachment rows and the tables when it started, the input
               \* of the call before it if that one succeeded, whether this
               \* call repeats it, and how many statements failed
               old |-> NoAttachments, start |-> <<>>, last |-> <<>>,
               repeat |-> FALSE, faults |-> 0]

\* nothing was loaded yet
NothingLoaded == [uid |-> 0, found |-> FALSE, parts |-> NoAttachments,
                  calls |-> 0]

\* a reader that has not asked for a page
IdleReader == [acct |-> "a1", mailbox |-> "INBOX", limit |-> 1, pages |-> <<>>]

\* delete_email_from_cache was not called yet
NoRemoval == [acct |-> "a1", mailbox |-> "INBOX", uid |-> 0,
              result |-> NoResult, calls |-> 0,
              \* kept only to state the properties of a call: the outcome
              \* of its statement, the tables when it started, and whether
              \* the call before it deleted the same key
              stmt |-> NoResult, start |-> <<>>, repeat |-> FALSE]

\* update_email_read_status was not called
NoMarking == [pc |-> "idle", acct |-> "a1", mailbox |-> "INBOX", uid |-> 0,
              unread |-> FALSE, result |-> NoResult,
              \* kept only to state the properties of the call: the cache
              \* when it started, the step that failed, whether the server
              \* took the flag change
              start |-> EmptyTable, failed |-> "none", stored |-> FALSE]

\* get_account_sender was not called: the lock of ACCOUNT_QUEUES is free,
\* no thread is in a call, no worker was spawned; sender is the worker the
\* Sender of the map belongs to, got the worker of the Sender returned
NoSpawner == [lock |-> NoOwner,
              pc |-> [t \in 1..NumCallers |-> "idle"],
              acct |-> [t \in 1..NumCallers |-> "a1"],
              got |-> [t \in 1..NumCallers |-> 0],
              sender |-> [a \in {"a1", "a2"} |-> 0],
              workers |-> [a \in {"a1", "a2"} |-> 0],
              calls |-> 0,
              \* kept only to state the properties: a thread called for an
              \* account without a worker while another was in such a call
              raced |-> FALSE]

InitViewIdle ==
    /\ attachments = NoAttachments
    /\ saving = IdleSaving
    /\ loaded = NothingLoaded
    /\ reader = IdleReader
    /\ removal = NoRemoval
    /\ marking = NoMarking
    /\ spawner = NoSpawner

(***************************************************************************)
(* Connection pool.                                                        *)
(***************************************************************************)
\* the staleness timeout of a pooled session, in seconds
CONNECTION_TIMEOUT_SECS == 300

\* the times since last_used that are followed, in milliseconds: none and
\* a second more than the timeout
LongIdle == {0, 1000 * (CONNECTION_TIMEOUT_SECS + 1)}

\* the same, with the timeout itself and half a second more than it
IdleTimes == LongIdle \cup {1000 * CONNECTION_TIMEOUT_SECS,
                            1000 * CONNECTION_TIMEOUT_SECS + 500}

\* Duration::as_secs: the whole seconds of a duration
as_secs(ms) == ms \div 1000

\* a pool entry: idle is last_used.elapsed()
FreshEntry == [state |-> "free", session |-> NoSession, idle |-> 0,
               owner |-> NoOwner]

IdleCaller == [pc |-> "idle", acct |-> "a1", mailbox |-> "INBOX",
               kind |-> "with", entry |-> NoEntry, opened |-> 0,
               staleClosed |-> FALSE, selectFailed |-> FALSE,
               \* kept only to state the properties of the call: whether
               \* it found a session in its entry, and one on which
               \* another mailbox was selected
               pooled |-> FALSE, other |-> FALSE,
               result |-> NoResult]

\* a caller whose call returned; what the call did is kept in callLog
DoneCaller == [IdleCaller EXCEPT !.pc = "done"]

InitPool ==
    /\ CONNECTION_POOL = [a \in Accounts |-> NoEntry]
    /\ poolLock = Unlocked
    /\ entries = [e \in EntryIds |-> FreshEntry]
    /\ sessions = <<>>
    /\ callers = [t \in Callers |-> IdleCaller]
    /\ callLog = [a \in Accounts |-> <<>>]
    /\ closer = [pc |-> "idle", runs |-> 0]
    /\ drained = {}

\* sessions that were opened and neither logged out nor dropped
LiveSessions(a) ==
    {s \in 1..Len(sessions) : sessions[s].acct = a /\ sessions[s].open}

\* sessions ever opened for account a
OpenedSessions(a) == {s \in 1..Len(sessions) : sessions[s].acct = a}

\* the states of a call between locking the entry and returning
InCall == {"locked", "select", "op"}

\* callers that hold a clone of the Arc of entry e
ArcHolders(e) ==
    {t \in Callers : callers[t].entry = e /\ callers[t].pc \in InCall \cup {"lock"}}

\* the session table after session s is closed (logout, or drop of the value)
CloseSession(ss, s) ==
    IF s = NoSession THEN ss
    ELSE [ss EXCEPT ![s].open = FALSE, ![s].selected = "none"]

\* connect_imap_for_account succeeded: a new session for account a
OpenSession(ss, a) ==
    Append(ss, [acct |-> a, open |-> TRUE, selected |-> "none"])

\* the entry table and session table after caller t drops its MutexGuard and
\* its Arc of entry e; the PooledConnection (and the Session in it) is dropped
\* with the last Arc
ReleaseEntry(es, ss, t, e) ==
    LET unlocked == [es EXCEPT ![e].owner = NoOwner]
        lastArc  == /\ \A a \in Accounts : CONNECTION_POOL[a] # e
                    /\ e \notin drained
                    /\ ArcHolders(e) \subseteq {t}
    IN  IF lastArc
        THEN [es |-> [unlocked EXCEPT ![e].state = "dropped",
                                      ![e].session = NoSession],
              ss |-> CloseSession(ss, es[e].session)]
        ELSE [es |-> unlocked, ss |-> ss]

\* imap_queue.rs get_connection_pool: the entry of the account, created when
\* the map has none
get_connection_pool(a) ==
    IF CONNECTION_POOL[a] # NoEntry
    THEN CONNECTION_POOL[a]
    ELSE CHOOSE e \in EntryIds :
            /\ entries[e].state = "free"
            /\ \A f \in EntryIds : entries[f].state = "free" => e <= f

\* with_imap_connection / sync_with_pool, up to get_connection_pool: the
\* account lookup, then the clone of the account's Arc under the map lock
Call(t, a, m, k, found) ==
    /\ callers[t].pc = "idle"
    /\ \A u \in Callers : u < t => callers[u].pc # "idle"
    /\ IF ~found
       THEN /\ callers' = [callers EXCEPT ![t] = DoneCaller]
            /\ UNCHANGED <<CONNECTION_POOL, entries>>
       ELSE /\ poolLock = Unlocked
            /\ LET e == get_connection_pool(a)
               IN  /\ CONNECTION_POOL' = [CONNECTION_POOL EXCEPT ![a] = e]
                   /\ entries' = [entries EXCEPT ![e].state = "used"]
                   /\ callers' = [callers EXCEPT ![t].pc = "lock",
                                     ![t].acct = a, ![t].mailbox = m,
                                     ![t].kind = k, ![t].entry = e]
    /\ UNCHANGED <<poolLock, sessions, callLog, closer, drained>>
    /\ UNCHANGED <<storeVars, queueVars, viewVars>>

\* the mutex of a pool entry can be taken without waiting for its holder
LockIgnoringHolder(en) == TRUE

\* Mutex::lock on a pool entry returns only when no one holds it
LockAvailable(en) == en.owner = NoOwner

\* pool.lock().unwrap(): blocks until the entry's mutex is free
LockEntry(t) ==
    /\ callers[t].pc = "lock"
    /\ LockAvailable(entries[callers[t].entry])
    /\ entries' = [entries EXCEPT ![callers[t].entry].owner = t]
    /\ callers' = [callers EXCEPT ![t].pc = "locked"]
    /\ UNCHANGED <<CONNECTION_POOL, poolLock, sessions, callLog, closer, drained>>
    /\ UNCHANGED <<storeVars, queueVars, viewVars>>

\* the record of a call that returned: what it opened and ran, what it
\* returned and the session it left in its pool entry
LogEntry(c, ran, opSession, opResult, left) ==
    [kind |-> c.kind, opened |-> c.opened, staleClosed |-> c.staleClosed,
     selectFailed |-> c.selectFailed,
     opCount |-> IF ran THEN 1 ELSE 0, opSession |-> opSession,
     opResult |-> opResult, result |-> c.result, left |-> left]

\* the caller returns: the guard and the Arc are dropped
Return(t, es, ss, c, ran, opSession, opResult) ==
    LET e == callers[t].entry
        r == ReleaseEntry(es, ss, t, e)
    IN  /\ entries' = r.es
        /\ sessions' = r.ss
        /\ callers' = [callers EXCEPT ![t] = DoneCaller]
        /\ callLog' = [callLog EXCEPT ![c.acct] =
              Append(@, LogEntry(c, ran, opSession, opResult, es[e].session))]

\* a session is stale from the timeout on
is_stale_at_timeout(en) ==
    en.session # NoSession /\ as_secs(en.idle) >= CONNECTION_TIMEOUT_SECS

\* lines 108-109 / 379-380: the entry holds a session and the whole
\* seconds since last_used are more than the timeout
is_stale(en) ==
    en.session # NoSession /\ as_secs(en.idle) > CONNECTION_TIMEOUT_SECS

\* a caller connects whatever the entry holds
NeedsConnectAlways(en) == TRUE

\* lines 111 / 382: no session, or a stale one
NeedsConnect(en) == en.session = NoSession \/ is_stale(en)

\* lines 108-125 (with_imap_connection) and 379-393 (sync_with_pool): reuse
\* the pooled session, or close a stale one and connect; a failed connect
\* returns through `?` and leaves last_used as it was
ReuseOrConnect(t, connectOk) ==
    /\ callers[t].pc = "locked"
    /\ LET c  == callers[t]
           e  == c.entry
           en == entries[e]
           next == IF c.kind = "with" THEN "select" ELSE "op"
       IN  IF NeedsConnect(en)
           THEN LET ss1 == CloseSession(sessions, en.session)
                    c1  == [c EXCEPT !.staleClosed = is_stale(en),
                                     !.pooled = en.session # NoSession]
                IN  IF connectOk
                    THEN /\ sessions' = OpenSession(ss1, c.acct)
                         /\ entries' = [entries EXCEPT
                                           ![e].session = Len(sessions) + 1]
                         /\ callers' = [callers EXCEPT ![t] =
                               [c1 EXCEPT !.opened = 1, !.pc = next]]
                         /\ callLog' = callLog
                    ELSE Return(t, [entries EXCEPT ![e].session = NoSession],
                                ss1, [c1 EXCEPT !.result = Err("connect")],
                                FALSE, NoSession, NoResult)
           ELSE /\ connectOk
                /\ callers' = [callers EXCEPT ![t].pc = next,
                                  ![t].pooled = TRUE,
                                  ![t].other =
                                      sessions[en.session].selected
                                        \notin {"none", c.mailbox}]
                /\ UNCHANGED <<entries, sessions, callLog>>
    /\ UNCHANGED <<CONNECTION_POOL, poolLock, closer, drained>>
    /\ UNCHANGED <<storeVars, queueVars, viewVars>>

\* the mailbox selected on a session after SELECT m succeeded, were the
\* command left out on a session that has a mailbox selected
SelectedUnlessAny(cur, m) == IF cur = "none" THEN m ELSE cur

\* the mailbox selected on a session after session.select(m) succeeded
SelectedAfter(cur, m) == m

\* lines 127-137: select the mailbox; when that fails drop the session,
\* connect again and select again
SelectMailbox(t, selectOk, connectOk, reselectOk) ==
    /\ callers[t].pc = "select"
    /\ LET c == callers[t]
           e == c.entry
           s == entries[e].session
       IN  IF selectOk
           THEN /\ connectOk /\ reselectOk
                /\ sessions' = [sessions EXCEPT ![s].selected =
                                    SelectedAfter(@, c.mailbox)]
                /\ callers' = [callers EXCEPT ![t].pc = "op"]
                /\ UNCHANGED <<entries, callLog>>
           ELSE LET ss1 == CloseSession(sessions, s)
                    c1  == [c EXCEPT !.selectFailed = TRUE]
                IN  IF ~connectOk
                    THEN /\ reselectOk
                         /\ Return(t, [entries EXCEPT ![e].session = NoSession],
                                   ss1, [c1 EXCEPT !.result = Err("connect")],
                                   FALSE, NoSession, NoResult)
                    ELSE LET ss2 == OpenSession(ss1, c.acct)
                             s2  == Len(sessions) + 1
                             es2 == [entries EXCEPT ![e].session = s2]
                             c2  == [c1 EXCEPT !.opened = c.opened + 1]
                         IN  IF reselectOk
                             THEN /\ sessions' =
                                       [ss2 EXCEPT ![s2].selected =
                                           SelectedAfter(@, c.mailbox)]
                                  /\ entries' = es2
                                  /\ callers' = [callers EXCEPT ![t] =
                                                   [c2 EXCEPT !.pc = "op"]]
                                  /\ callLog' = callLog
                             ELSE Return(t, es2, ss2,
                                         [c2 EXCEPT !.result = Err("select")],
                                         FALSE, NoSession, NoResult)
    /\ UNCHANGED <<CONNECTION_POOL, poolLock, closer, drained>>
    /\ UNCHANGED <<storeVars, queueVars, viewVars>>

\* every error invalidates the pooled session
SessionAfterOpAnyError(s, r) == IF ~r.ok THEN NoSession ELSE s

\* the session left in the entry by lines 142-150 / 398-406: taken out and
\* logged out when the operation failed with a connection error
SessionAfterOp(s, r) == IF IsConnErr(r) THEN NoSession ELSE s

\* the operation of the call takes the DB lock: sync_emails_with_session,
\* run by sync_with_pool, does; the closures of with_imap_connection do not
TakesDbLock(c) == c.kind = "sync"

\* DB.lock() returns only when no pass holds the guard
DbFree == \A q \in DOMAIN pass : ~pass[q].db

\* the operation run after a second CONNECTION_POOL.lock(), taken while the
\* entry is held
RunOpUnderMapLock(t, r) ==
    /\ callers[t].pc = "op"
    /\ TakesDbLock(callers[t]) => DbFree
    /\ poolLock = Unlocked
    /\ LET c   == callers[t]
           e   == c.entry
           s   == entries[e].session
           s1  == SessionAfterOp(s, r)
           ss1 == IF s1 = NoSession THEN CloseSession(sessions, s) ELSE sessions
           es1 == [entries EXCEPT ![e].session = s1, ![e].idle = 0]
       IN  Return(t, es1, ss1, [c EXCEPT !.result = r], TRUE, s, r)
    /\ UNCHANGED <<CONNECTION_POOL, poolLock, closer, drained>>
    /\ UNCHANGED <<storeVars, queueVars, viewVars>>

\* lines 139-153 / 395-409: run the operation once on the pooled session
\* (the pass of sync_with_pool waits for the DB lock), invalidate the entry
\* on a connection error, stamp last_used, return the operation's result
RunOp(t, r) ==
    /\ callers[t].pc = "op"
    /\ TakesDbLock(callers[t]) => DbFree
    /\ LET c   == callers[t]
           e   == c.entry
           s   == entries[e].session
           s1  == SessionAfterOp(s, r)
           ss1 == IF s1 = NoSession THEN CloseSession(sessions, s) ELSE sessions
           es1 == [entries EXCEPT ![e].session = s1, ![e].idle = 0]
       IN  Return(t, es1, ss1, [c EXCEPT !.result = r], TRUE, s, r)
    /\ UNCHANGED <<CONNECTION_POOL, poolLock, closer, drained>>
    /\ UNCHANGED <<storeVars, queueVars, viewVars>>

\* time passes since the last_used of an entry that holds a session and is
\* not in use, up to one of the times T
Age(e, T) ==
    /\ entries[e].state = "used"
    /\ entries[e].owner = NoOwner
    /\ entries[e].session # NoSession
    /\ \E d \in T :
          /\ d > entries[e].idle
          /\ entries' = [entries EXCEPT ![e].idle = d]
    /\ UNCHANGED <<CONNECTION_POOL, poolLock, sessions, callers, callLog,
                   closer, drained>>
    /\ UNCHANGED <<storeVars, queueVars, viewVars>>

\* close_all_connections, lines 159-160: take the map lock and drain the map
CloseAllBegin ==
    /\ closer.pc = "idle"
    /\ closer.runs < MaxCloseAll
    /\ poolLock = Unlocked
    /\ poolLock' = Closer
    /\ drained' = {CONNECTION_POOL[a] : a \in Accounts} \ {NoEntry}
    /\ CONNECTION_POOL' = [a \in Accounts |-> NoEntry]
    /\ closer' = [pc |-> "draining", runs |-> closer.runs + 1]
    /\ UNCHANGED <<entries, sessions, callers, callLog>>
    /\ UNCHANGED <<storeVars, queueVars, viewVars>>

\* close_all_connections, lines 161-166, for one drained entry: lock it, take
\* and log out its session, drop the Arc
CloseAllEntry(e) ==
    /\ closer.pc = "draining"
    /\ e \in drained
    /\ entries[e].owner = NoOwner
    /\ drained' = drained \ {e}
    /\ sessions' = CloseSession(sessions, entries[e].session)
    /\ entries' = [entries EXCEPT
          ![e].session = NoSession,
          ![e].state = IF ArcHolders(e) = {} THEN "dropped" ELSE "used"]
    /\ UNCHANGED <<CONNECTION_POOL, poolLock, callers, callLog, closer>>
    /\ UNCHANGED <<storeVars, queueVars, viewVars>>

\* close_all_connections returns: the map lock is released
CloseAllEnd ==
    /\ closer.pc = "draining"
    /\ drained = {}
    /\ poolLock' = Unlocked
    /\ closer' = [closer EXCEPT !.pc = "idle"]
    /\ UNCHANGED <<CONNECTION_POOL, entries, sessions, callers, callLog, drained>>
    /\ UNCHANGED <<storeVars, queueVars, viewVars>>

CallerStep ==
    \/ \E t \in Callers, a \in Accounts, m \in Mailboxes,
          k \in {"with", "sync"}, found \in BOOLEAN : Call(t, a, m, k, found)
    \/ \E t \in Callers : LockEntry(t)
    \/ \E t \in Callers, ok \in BOOLEAN : ReuseOrConnect(t, ok)
    \/ \E t \in Callers, s \in BOOLEAN, c \in BOOLEAN, r \in BOOLEAN :
          SelectMailbox(t, s, c, r)
    \/ \E t \in Callers, r \in Results : RunOp(t, r)
    \/ \E e \in EntryIds : Age(e, LongIdle)

CloseAllStep ==
    \/ CloseAllBegin
    \/ \E e \in EntryIds : CloseAllEntry(e)
    \/ CloseAllEnd

\* the pool as the program uses it: nothing calls close_all_connections
NextPool == CallerStep

\* the pool with close_all_connections running beside the callers
NextPoolShutdown == CallerStep \/ CloseAllStep

\* the pool before any call, with nothing stored and nothing queued
InitPoolAlone ==
    /\ InitPool
    /\ InitStoreIdle
    /\ InitQueueIdle
    /\ InitViewIdle

SpecPool == InitPoolAlone /\ [][NextPool]_vars
SpecPoolShutdown == InitPoolAlone /\ [][NextPoolShutdown]_vars

(***************************************************************************)
(* Properties of the connection pool.                                      *)
(***************************************************************************)
\* the callers of account a that are between get_connection_pool and return
InProgress(a) ==
    {t \in Callers : callers[t].acct = a /\ callers[t].pc \in InCall \cup {"lock"}}

\* C2: for every account at most one caller at a time is between acquiring
\* the account's pooled session and returning; the caller in that region
\* owns the lock of the account's pool entry.
C2_ExclusiveSession ==
    \A t1 \in Callers :
        callers[t1].pc \in InCall =>
            /\ entries[callers[t1].entry].owner = t1
            /\ \A t2 \in Callers \ {t1} :
                   callers[t2].pc \in InCall =>
                       callers[t2].acct # callers[t1].acct

\* a caller is about to run its operation on the pooled session while a
\* second caller of the same account waits for the entry's lock
C2_Witness ==
    \E t1 \in Callers, t2 \in Callers :
        /\ t1 # t2
        /\ callers[t1].acct = callers[t2].acct
        /\ callers[t1].pc = "op"
        /\ callers[t2].pc = "lock"
        /\ entries[callers[t1].entry].session # NoSession

\* C3: in every reachable state every account has at most one live session
\* that was opened through the pool, also with close_all_connections running
\* beside the callers.
C3_AtMostOneLiveSession ==
    \A a \in Accounts : Cardinality(LiveSessions(a)) <= 1

\* no call of account a is in progress, at least one returned, and no
\* session of a was closed for being idle past the timeout
Settled(a) ==
    /\ InProgress(a) = {}
    /\ Len(callLog[a]) >= 1
    /\ \A i \in 1..Len(callLog[a]) : ~callLog[a][i].staleClosed

\* the operations of account a that failed with a connection-class error,
\* among the first n
ConnFailed(a, n) == {i \in 1..n : IsConnErr(callLog[a][i].opResult)}

AllConnected(a) ==
    \A i \in 1..Len(callLog[a]) :
        callLog[a][i].opCount = 1 /\ ~callLog[a][i].selectFailed

C5_ResultAndInvalidation ==
    \A a \in Accounts : \A i \in 1..Len(callLog[a]) :
        LET c == callLog[a][i]
        IN  IF c.opCount = 1
            THEN /\ c.result = c.opResult
                 /\ c.result \in Results
                 /\ (c.left = NoSession) <=> IsConnErr(c.opResult)
                 /\ ~IsConnErr(c.opResult) => c.left = c.opSession
                 /\ c.opSession # NoSession
            ELSE c.result \in {Err("connect"), Err("select")}

\* a call failed with a connection-class error and left its entry empty, and
\* a later call failed with another error and left its session pooled
C5_Witness ==
    \E a \in Accounts : \E i \in 1..Len(callLog[a]), j \in 1..Len(callLog[a]) :
        /\ i < j
        /\ callLog[a][i].opCount = 1 /\ IsConnErr(callLog[a][i].opResult)
        /\ callLog[a][i].left = NoSession
        /\ callLog[a][j].opCount = 1 /\ ~callLog[a][j].opResult.ok
        /\ callLog[a][j].left # NoSession

(***************************************************************************)
(* The sync pass (mail.rs): sync_emails_with_session on a pooled session   *)
(* ("session"), sync_emails_improved on a connection of its own            *)
(* ("improved"), and sync_emails, the pass of the sync_emails command      *)
(* ("full").  A pass takes the database lock for each database step, so    *)
(* each step is one action; where the guard of the lock outlives the step  *)
(* the pass keeps it (db).                                                 *)
(***************************************************************************)
Variants == {"session", "improved", "full"}
OwnConnection == {"improved", "full"}
\* sync_emails_improved runs the steps of sync_emails
WindowedSessionOnly == {"session"}

\* the passes of the two-step window (sync_emails_with_session and
\* sync_emails_improved)
Windowed == {"session", "improved"}

Min(x, y) == IF x < y THEN x ELSE y

\* the mailbox a pass works on, as the server holds it now
Box(p) == remote[p.acct][p.mailbox]

\* the pass returns: its result, and the guard of the DB lock, if it holds
\* one, goes out of scope
Finish(p, res) == [p EXCEPT !.pc = "done", !.result = res, !.db = FALSE]

\* FETCH start:* by sequence number
FetchRange(box, start) ==
    IF Len(box) = 0 THEN <<>> ELSE SubSeq(box, Min(start, Len(box)), Len(box))

\* UID FETCH of a set of uids: the messages that exist, in sequence order
UidFetch(box, S) == SelectSeq(box, LAMBDA msg : msg.uid \in S)

\* UID SEARCH SINCE (today - SYNC_DAYS)
UidSearchSince(box) ==
    {box[i].uid : i \in {j \in 1..Len(box) : box[j].age <= SYNC_DAYS}}

\* (uid, is_unread, internal_date) of each fetched message
Listed(msgs) ==
    [i \in 1..Len(msgs) |->
        [uid |-> msgs[i].uid, is_unread |-> ~msgs[i].seen, age |-> msgs[i].age]]

SeqUids(sq) == {sq[i].uid : i \in 1..Len(sq)}

\* a pass begins for runner r
StartPass(r, v, a, m) ==
    pass' = [pass EXCEPT ![r] =
                [IdlePass EXCEPT !.pc = IF v \in OwnConnection THEN "connect"
                                        ELSE "select",
                                 !.variant = v, !.acct = a, !.mailbox = m,
                                 !.before = Before(emails, a, m)]]

\* the pass having sent one more command to the server (kept with the
\* pass only to state which kinds of command it issued, which of them
\* while its DB.lock() guard was alive, and how many in all)
Issue(p, c) == [p EXCEPT !.issued = @ \cup {c},
                         !.held = IF p.db THEN @ \cup {c} ELSE @,
                         !.sent = @ + 1]

\* DB.lock(): no other pass holds the guard
DbLock(r) == \A q \in Runners \ {r} : ~pass[q].db

\* get_account and connect_imap of the passes that own their connection
sync_connect(r, f) ==
    LET p == pass[r] IN
    /\ p.pc = "connect"
    /\ pass' = [pass EXCEPT ![r] =
                  IF f.ok THEN [p EXCEPT !.pc = "select"] ELSE Finish(p, f)]
    /\ UNCHANGED <<remote, emails, mailbox_metadata, op_logs>>
    /\ UNCHANGED <<poolVars, queueVars, viewVars>>

\* session.select and the early return for an empty mailbox
sync_select(r, f) ==
    LET p == Issue(pass[r], "SELECT")
        total == Len(Box(p))
    IN
    /\ p.pc = "select"
    /\ IF ~f.ok
         THEN /\ pass' = [pass EXCEPT ![r] = Finish(p, f)]
              /\ UNCHANGED mailbox_metadata
         ELSE IF total = 0
         THEN /\ p.variant \in Windowed => DbLock(r)
              \* sync_emails_improved: `let conn = DB.lock().unwrap();` is
              \* alive until the function returns, after session.logout()
              /\ pass' = [pass EXCEPT ![r] =
                            IF p.variant \in OwnConnection
                              THEN [p EXCEPT !.pc = "logout",
                                             !.db = p.variant \in Windowed]
                              ELSE Finish(p, Ok)]
              /\ mailbox_metadata' =
                    IF p.variant \in Windowed
                      THEN save_mailbox_metadata(mailbox_metadata,
                                                 p.acct, p.mailbox)
                      ELSE mailbox_metadata
         ELSE /\ pass' = [pass EXCEPT ![r] =
                            [p EXCEPT !.pc = "fetch", !.total = total]]
              /\ UNCHANGED mailbox_metadata
    /\ UNCHANGED <<remote, emails, op_logs>>
    /\ UNCHANGED <<poolVars, queueVars, viewVars>>

\* step 1: FETCH of the last MIN_SYNC_EMAILS messages ("1:*" in sync_emails)
sync_fetch(r, f) ==
    LET p == Issue(pass[r], "FETCH")
        start_seq == IF p.variant \in Windowed /\ p.total > MIN_SYNC_EMAILS
                       THEN p.total - MIN_SYNC_EMAILS + 1 ELSE 1
        messages == FetchRange(Box(p), start_seq)
    IN
    /\ p.pc = "fetch"
    /\ pass' = [pass EXCEPT ![r] =
                  IF ~f.ok THEN Finish(p, f)
                  ELSE [p EXCEPT !.pc = IF p.variant \in Windowed
                                          THEN "search" ELSE "diff",
                                 !.all_emails = Listed(messages),
                                 !.fetched_uids = SeqUids(messages)]]
    /\ UNCHANGED <<remote, emails, mailbox_metadata, op_logs>>
    /\ UNCHANGED <<poolVars, queueVars, viewVars>>

\* a failed search ends the pass with its error
AfterSearchPropagate(p, f) ==
    IF f.ok
      THEN [p EXCEPT !.pc = "missing", !.recent_uids = UidSearchSince(Box(p))]
      ELSE Finish([p EXCEPT !.search_failed = TRUE], f)

\* the pass after uid_search: a failure counts as an empty answer
\* (search_failed only records that it happened)
AfterSearch(p, f) ==
    IF f.ok
      THEN [p EXCEPT !.pc = "missing", !.recent_uids = UidSearchSince(Box(p))]
      ELSE [p EXCEPT !.pc = "missing", !.recent_uids = {},
                     !.search_failed = TRUE]

\* step 2: UID SEARCH SINCE
sync_search(r, f) ==
    LET p == Issue(pass[r], "UID SEARCH") IN
    /\ p.pc = "search"
    /\ pass' = [pass EXCEPT ![r] = AfterSearch(p, f)]
    /\ UNCHANGED <<remote, emails, mailbox_metadata, op_logs>>
    /\ UNCHANGED <<poolVars, queueVars, viewVars>>

\* step 3: UID FETCH of the recent uids step 1 did not return; a failure
\* is skipped
sync_missing(r, f) ==
    LET missing_uids == pass[r].recent_uids \ pass[r].fetched_uids
        p == IF missing_uids = {} THEN pass[r]
             ELSE Issue(pass[r], "UID FETCH")
        msgs == UidFetch(Box(p), missing_uids)
    IN
    /\ p.pc = "missing"
    /\ missing_uids = {} => f = Ok
    /\ pass' = [pass EXCEPT ![r] =
                  IF missing_uids = {} \/ ~f.ok
                    THEN [p EXCEPT !.pc = "diff", !.recent_uids = {}]
                    ELSE [p EXCEPT !.pc = "diff", !.recent_uids = {},
                                   !.all_emails = p.all_emails \o Listed(msgs),
                                   !.fetched_uids =
                                       p.fetched_uids \cup SeqUids(msgs)]]
    /\ UNCHANGED <<remote, emails, mailbox_metadata, op_logs>>
    /\ UNCHANGED <<poolVars, queueVars, viewVars>>

\* every listed uid taken as new
find_all_uids(all_emails, cached) ==
    [i \in 1..Len(all_emails) |-> all_emails[i].uid]

\* new_uids: the listed uids that are not cached, in the order listed
find_new_uids(all_emails, cached) ==
    LET fresh == SelectSeq(all_emails, LAMBDA e : e.uid \notin cached)
    IN [i \in 1..Len(fresh) |-> fresh[i].uid]

\* server_uids, cached_uids (under the database lock) and new_uids
sync_diff(r) ==
    LET p == pass[r]
        cached == get_cached_uids(emails, p.acct, p.mailbox)
    IN
    /\ p.pc = "diff"
    /\ DbLock(r)
    /\ pass' = [pass EXCEPT ![r] =
                  [p EXCEPT !.pc = "download",
                            !.server_uids = p.fetched_uids,
                            !.cached_uids = cached,
                            !.new_uids = find_new_uids(p.all_emails, cached)]]
    /\ UNCHANGED <<remote, emails, mailbox_metadata, op_logs>>
    /\ UNCHANGED <<poolVars, queueVars, viewVars>>

\* the loop body of step 4 after a successful UID FETCH: each returned
\* message that parses is stored as a row
\* a message that does not parse saved as a row without content
RECURSIVE save_fetched_unparsed(_, _, _, _)
save_fetched_unparsed(tbl, a, m, msgs) ==
    IF msgs = <<>> THEN [tbl |-> tbl, saved |-> 0]
    ELSE LET msg == Head(msgs)
             next == save_email_to_db(tbl, a, m, msg.uid,
                                      Row(~msg.seen, msg.parses, msg.age))
             rest == save_fetched_unparsed(next, a, m, Tail(msgs))
         IN [tbl |-> rest.tbl, saved |-> rest.saved + 1]

RECURSIVE save_fetched(_, _, _, _)
save_fetched(tbl, a, m, msgs) ==
    IF msgs = <<>> THEN [tbl |-> tbl, saved |-> 0]
    ELSE LET msg == Head(msgs)
             next == IF msg.parses
                       THEN save_email_to_db(tbl, a, m, msg.uid,
                                             Row(~msg.seen, TRUE, msg.age))
                       ELSE tbl
             rest == save_fetched(next, a, m, Tail(msgs))
         IN [tbl |-> rest.tbl,
             saved |-> rest.saved + IF msg.parses THEN 1 ELSE 0]

\* step 4 with a failed fetch skipped like those of steps 3 and 6
sync_download_skipping(r, f) ==
    LET p == IF pass[r].new_uids = <<>> THEN pass[r]
             ELSE Issue(pass[r], "UID FETCH")
        n == Min(FETCH_CHUNK, Len(p.new_uids))
        chunk == {p.new_uids[i] : i \in 1..n}
    IN
    /\ p.pc = "download"
    /\ p.new_uids = <<>> => f = Ok
    /\ pass' = [pass EXCEPT ![r] =
                  IF p.new_uids = <<>> \/ ~f.ok THEN [p EXCEPT !.pc = "flags"]
                  ELSE [p EXCEPT !.pc = "save",
                                 !.fetched = UidFetch(Box(p), chunk),
                                 !.new_uids = SubSeq(p.new_uids, n + 1,
                                                     Len(p.new_uids))]]
    /\ UNCHANGED <<remote, emails, mailbox_metadata, op_logs>>
    /\ UNCHANGED <<poolVars, queueVars, viewVars>>

\* step 4, the network half: one chunk of new_uids is fetched in full; a
\* failed fetch ends the pass with the error
sync_download(r, f) ==
    LET p == IF pass[r].new_uids = <<>> THEN pass[r]
             ELSE Issue(pass[r], "UID FETCH")
        n == Min(FETCH_CHUNK, Len(p.new_uids))
        chunk == {p.new_uids[i] : i \in 1..n}
    IN
    /\ p.pc = "download"
    /\ p.new_uids = <<>> => f = Ok
    /\ pass' = [pass EXCEPT ![r] =
                  IF p.new_uids = <<>> THEN [p EXCEPT !.pc = "flags"]
                  ELSE IF ~f.ok THEN Finish(p, f)
                  ELSE [p EXCEPT !.pc = "save",
                                 !.fetched = UidFetch(Box(p), chunk),
                                 !.new_uids = SubSeq(p.new_uids, n + 1,
                                                     Len(p.new_uids))]]
    /\ UNCHANGED <<remote, emails, mailbox_metadata, op_logs>>
    /\ UNCHANGED <<poolVars, queueVars, viewVars>>

\* step 4, the database half: the fetched messages are stored under the
\* database lock, then the next chunk is due
sync_save(r) ==
    LET p == pass[r]
        out == save_fetched(emails, p.acct, p.mailbox, p.fetched)
    IN
    /\ p.pc = "save"
    /\ DbLock(r)
    /\ emails' = out.tbl
    /\ pass' = [pass EXCEPT ![r] =
                  [p EXCEPT !.pc = "download", !.fetched = <<>>,
                            !.new_count = p.new_count + out.saved]]
    /\ UNCHANGED <<remote, mailbox_metadata, op_logs>>
    /\ UNCHANGED <<poolVars, queueVars, viewVars>>

\* the flag update: rows cached when the pass read cached_uids take the
\* unread flag the server reported
RECURSIVE update_flags(_, _, _, _, _)
update_flags(tbl, a, m, listed, cached) ==
    IF listed = <<>> THEN [tbl |-> tbl, updated |-> 0]
    ELSE LET e == Head(listed)
             k == <<a, m, e.uid>>
             differs == /\ e.uid \in cached
                        /\ k \in DOMAIN tbl
                        /\ tbl[k].unread # e.is_unread
             next == IF differs THEN update_unread(tbl, a, m, e.uid, e.is_unread)
                     ELSE tbl
             rest == update_flags(next, a, m, Tail(listed), cached)
         IN [tbl |-> rest.tbl,
             updated |-> rest.updated + IF differs THEN 1 ELSE 0]

sync_flags(r) ==
    LET p == pass[r]
        out == update_flags(emails, p.acct, p.mailbox, p.all_emails,
                            p.cached_uids)
    IN
    /\ p.pc = "flags"
    /\ DbLock(r)
    /\ emails' = out.tbl
    /\ pass' = [pass EXCEPT ![r] =
                  [p EXCEPT !.pc = IF p.variant \in Windowed THEN "evict"
                                   ELSE "logout",
                            !.updated_count = out.updated]]
    /\ UNCHANGED <<remote, mailbox_metadata, op_logs>>
    /\ UNCHANGED <<poolVars, queueVars, viewVars>>

\* step 5: rows whose uid is not in server_uids are deleted
sync_evict(r) ==
    LET p == pass[r]
        stale == get_cached_uids(emails, p.acct, p.mailbox) \ p.server_uids
    IN
    /\ p.pc = "evict"
    /\ DbLock(r)
    /\ emails' = delete_stale_emails(emails, p.acct, p.mailbox, p.server_uids)
    /\ attachments' = cascade_stale_emails(attachments, emails, p.acct,
                                           p.mailbox, p.server_uids)
    /\ pass' = [pass EXCEPT ![r] =
                  [p EXCEPT !.pc = "prefetch",
                            !.deleted_count = Cardinality(stale)]]
    /\ UNCHANGED <<remote, mailbox_metadata, op_logs>>
    /\ UNCHANGED <<saving, loaded, reader, removal, marking, spawner>>
    /\ UNCHANGED <<poolVars, queueVars>>

\* the answers of the SELECT without its ORDER BY: any rows without a body
get_uids_without_body_any(tbl, a, m, limit) ==
    LET bare == {u \in get_cached_uids(tbl, a, m) : ~tbl[<<a, m, u>>].body}
        n == Min(limit, Cardinality(bare))
    IN {S \in SUBSET bare : Cardinality(S) = n}

\* the answers SELECT ... ORDER BY internal_date DESC LIMIT limit can give:
\* the most recent rows without a body, rows of equal date in any order
get_uids_without_body(tbl, a, m, limit) ==
    LET bare == {u \in get_cached_uids(tbl, a, m) : ~tbl[<<a, m, u>>].body}
        n == Min(limit, Cardinality(bare))
    IN {S \in SUBSET bare :
          /\ Cardinality(S) = n
          /\ \A u \in S, w \in bare \ S :
                tbl[<<a, m, u>>].age <= tbl[<<a, m, w>>].age}

\* the loop body of step 6: each returned message that parses fills the
\* body of its row
RECURSIVE store_bodies(_, _, _, _)
store_bodies(tbl, a, m, msgs) ==
    IF msgs = <<>> THEN tbl
    ELSE LET msg == Head(msgs)
             next == IF msg.parses
                       THEN update_email_body_in_db(tbl, a, m, msg.uid)
                       ELSE tbl
         IN store_bodies(next, a, m, Tail(msgs))

\* step 6, up to the fetch: the most recent rows without a body are read
\* under the database lock and fetched; a failed fetch is skipped
sync_prefetch(r, prefetch_uids, f) ==
    LET p == IF prefetch_uids = {} THEN pass[r]
             ELSE Issue(pass[r], "UID FETCH")
    IN
    /\ p.pc = "prefetch"
    /\ DbLock(r)
    /\ prefetch_uids \in get_uids_without_body(emails, p.acct, p.mailbox,
                                               PREFETCH_BODY_COUNT)
    /\ prefetch_uids = {} => f = Ok
    /\ pass' = [pass EXCEPT ![r] =
                  IF prefetch_uids = {} \/ ~f.ok
                    THEN [p EXCEPT !.pc = "bookmark"]
                    ELSE [p EXCEPT !.pc = "bodies",
                                   !.fetched = UidFetch(Box(p), prefetch_uids)]]
    /\ UNCHANGED <<remote, emails, mailbox_metadata, op_logs>>
    /\ UNCHANGED <<poolVars, queueVars, viewVars>>

\* step 6, the database half: the fetched bodies are stored
sync_bodies(r) ==
    LET p == pass[r] IN
    /\ p.pc = "bodies"
    /\ DbLock(r)
    /\ emails' = store_bodies(emails, p.acct, p.mailbox, p.fetched)
    /\ pass' = [pass EXCEPT ![r] =
                  [p EXCEPT !.pc = "bookmark", !.fetched = <<>>]]
    /\ UNCHANGED <<remote, mailbox_metadata, op_logs>>
    /\ UNCHANGED <<poolVars, queueVars, viewVars>>

\* step 7: save_mailbox_metadata, then the result (the logout first when
\* the pass owns its connection)
sync_bookmark(r) ==
    LET p == pass[r] IN
    /\ p.pc = "bookmark"
    /\ DbLock(r)
    /\ mailbox_metadata' =
          save_mailbox_metadata(mailbox_metadata, p.acct, p.mailbox)
    /\ pass' = [pass EXCEPT ![r] =
                  IF p.variant \in OwnConnection
                    THEN [p EXCEPT !.pc = "logout"]
                    ELSE Finish(p, Ok)]
    /\ UNCHANGED <<remote, emails, op_logs>>
    /\ UNCHANGED <<poolVars, queueVars, viewVars>>

\* session.logout()? of the passes that own their connection
sync_logout(r, f) ==
    LET p == Issue(pass[r], "LOGOUT") IN
    /\ p.pc = "logout"
    /\ pass' = [pass EXCEPT ![r] = Finish(p, f)]
    /\ UNCHANGED <<remote, emails, mailbox_metadata, op_logs>>
    /\ UNCHANGED <<poolVars, queueVars, viewVars>>

\* the steps every variant of the pass has, the remote calls answering
\* from F
CommonStep(r, F) ==
    \/ \E f \in F : sync_select(r, f)
    \/ \E f \in F : sync_fetch(r, f)
    \/ sync_diff(r)
    \/ \E f \in F : sync_download(r, f)
    \/ sync_save(r)
    \/ sync_flags(r)

\* the steps of the windowed variants only
WindowStep(r, F) ==
    \/ \E f \in F : sync_search(r, f)
    \/ \E f \in F : sync_missing(r, f)
    \/ sync_evict(r)
    \/ \E S \in SUBSET Uids, f \in F : sync_prefetch(r, S, f)
    \/ sync_bodies(r)
    \/ sync_bookmark(r)

\* the connect and the logout of a pass that owns its connection
ConnectionStep(r, F) ==
    \/ \E f \in F : sync_connect(r, f)
    \/ \E f \in F : sync_logout(r, f)

\* one step of sync_emails_with_session
SessionStep(r, F) == CommonStep(r, F) \/ WindowStep(r, F)

\* one step of sync_emails
FullStep(r, F) == CommonStep(r, F) \/ ConnectionStep(r, F)

\* one step of the pass of runner r
SyncStep(r) == SessionStep(r, Results) \/ ConnectionStep(r, Results)

(***************************************************************************)
(* One sync pass on a fixed remote mailbox: the mailbox and the cache the  *)
(* pass starts from are chosen freely, the server does not change during   *)
(* the pass and nothing else writes the database.                          *)
(***************************************************************************)
SyncAcct == "a1"
SyncBox == "INBOX"

\* the uids of S in ascending order (the sequence order of a mailbox)
SortedUids(S) ==
    CHOOSE sq \in [1..Cardinality(S) -> S] :
        \A i, j \in 1..Cardinality(S) : i < j => sq[i] < sq[j]

\* every mailbox with uids from Uids
MailboxStates ==
    UNION {{[i \in 1..Cardinality(S) |->
                Message(SortedUids(S)[i], at[SortedUids(S)[i]].seen,
                        at[SortedUids(S)[i]].age, at[SortedUids(S)[i]].parses)] :
              at \in [S -> [seen : BOOLEAN, age : Ages, parses : BOOLEAN]]} :
           S \in SUBSET Uids}

\* the internal date a cached row of uid u carries: that of the message
AgeOf(box, u) ==
    IF \E i \in 1..Len(box) : box[i].uid = u
      THEN (CHOOSE msg \in {box[i] : i \in 1..Len(box)} : msg.uid = u).age
      ELSE SYNC_DAYS + 1

\* a row of another mailbox, which no pass on SyncBox may touch
OtherKey == <<SyncAcct, "Archive", 1>>
OtherRow == Row(TRUE, FALSE, 0)

\* every cache of (SyncAcct, SyncBox), beside the row of the other mailbox
CacheStates(box) ==
    UNION {{[k \in {<<SyncAcct, SyncBox, u>> : u \in S} \cup {OtherKey} |->
                IF k = OtherKey THEN OtherRow
                ELSE Row(at[k[3]].unread, at[k[3]].body, AgeOf(box, k[3]))] :
              at \in [S -> [unread : BOOLEAN, body : BOOLEAN]]} :
           S \in SUBSET Uids}

\* who runs which variant: the account's worker runs the pooled pass
RunnerOf(v) == IF v = "session" THEN SyncAcct ELSE UiThread

InitSync ==
    /\ InitPool
    /\ InitQueueIdle
    /\ InitViewIdle
    /\ \E box \in MailboxStates :
          /\ remote = [a \in Accounts |-> [m \in Mailboxes |->
                          IF a = SyncAcct /\ m = SyncBox THEN box ELSE <<>>]]
          /\ emails \in CacheStates(box)
    /\ mailbox_metadata = {}
    /\ op_logs = <<>>
    /\ \E v \in Variants :
          pass = [r \in Runners |->
                    IF r = RunnerOf(v)
                      THEN [IdlePass EXCEPT
                              !.pc = IF v \in OwnConnection THEN "connect"
                                     ELSE "select",
                              !.variant = v, !.acct = SyncAcct,
                              !.mailbox = SyncBox,
                              !.before = Before(emails, SyncAcct, SyncBox)]
                      ELSE IdlePass]

NextSync == \E r \in Runners : SyncStep(r)

SpecSync == InitSync /\ [][NextSync]_vars

(***************************************************************************)
(* Properties of the sync pass.                                            *)
(***************************************************************************)
\* a pass of sync_emails_with_session or sync_emails_improved that
\* returned success
Succeeded(p) == p.pc = "done" /\ p.result.ok /\ p.variant \in Windowed

\* C1: after a sync pass (sync_emails_with_session or sync_emails_improved)
\* that returns success on a fixed remote mailbox, the uids cached for its
\* (account, mailbox) are exactly the candidate set of the pass: nothing
\* outside the set is left, nothing of the set is missing; an empty
\* mailbox (empty candidate set) leaves no cached uid.
C1_EvictionComplete ==
    \A r \in Runners :
        Succeeded(pass[r]) =>
            get_cached_uids(emails, pass[r].acct, pass[r].mailbox)
                = pass[r].server_uids

(***************************************************************************)
(* The operation queue (imap_queue.rs) and the commands that feed it       *)
(* (lib.rs).                                                               *)
(***************************************************************************)
\* ImapOperation; seq is the position of the intent among all submitted
MarkRead(m, u, un, n) ==
    [kind |-> "mark", mailbox |-> m, uid |-> u, unread |-> un, seq |-> n]
Delete(m, u, n) ==
    [kind |-> "del", mailbox |-> m, uid |-> u, unread |-> FALSE, seq |-> n]
MoveToTrash(m, u, n) ==
    [kind |-> "trash", mailbox |-> m, uid |-> u, unread |-> FALSE, seq |-> n]
SyncMailbox(m, n) ==
    [kind |-> "sync", mailbox |-> m, uid |-> 0, unread |-> FALSE, seq |-> n]

\* format!("mark:{}:{}", mailbox, uid) and its siblings
PendingKey(op) == op.kind \o ":" \o op.mailbox \o ":" \o ToString(op.uid)

\* an insert that keeps the value a key already has
MapInsertKeepFirst(pm, k, op) ==
    [j \in DOMAIN pm \cup {k} |-> IF j \in DOMAIN pm THEN pm[j] ELSE op]

\* HashMap::insert
MapInsert(pm, k, op) ==
    [j \in DOMAIN pm \cup {k} |-> IF j = k THEN op ELSE pm[j]]

\* the map without one key
MapRemove(pm, k) == [j \in DOMAIN pm \ {k} |-> pm[j]]

\* a sender that waits until the channel has room, as send().await does
send_ready(a) == Len(channel[a]) < CHANNEL_CAPACITY

\* try_send returns at once whatever the channel holds and whatever the
\* worker is doing; get_account_sender holds the map's mutex only while it
\* looks the sender up
try_send_ready(a) == TRUE

\* get_account_sender and try_send: the first intent of an account creates
\* its channel and worker; an intent sent to a full channel is discarded
Enqueue(a, op) ==
    /\ try_send_ready(a)
    /\ ACCOUNT_QUEUES' = ACCOUNT_QUEUES \cup {a}
    /\ channel' = [channel EXCEPT ![a] =
                      IF Len(@) < CHANNEL_CAPACITY THEN Append(@, op) ELSE @]
    /\ submitted' = submitted + 1

\* what update_email_cache_only returns: the row get_email reads after the
\* UPDATE, or the error of query_row when there is none
update_email_cache_only_result(tbl, a, m, u) ==
    IF <<a, m, u>> \in DOMAIN tbl THEN Ok ELSE Err("no rows")

\* what delete_email_from_cache returns: a DELETE that matches no row is no
\* error
delete_email_from_cache_result(tbl, a, m, u) == Ok

\* what the three commands return: the error of the cache statement (`?`),
\* Ok(()) otherwise
mark_email_read_async_result(tbl, a, m, u) ==
    update_email_cache_only_result(tbl, a, m, u)
delete_email_result(tbl, a, m, u) ==
    delete_email_from_cache_result(tbl, a, m, u)
permanent_delete_email_result(tbl, a, m, u) ==
    delete_email_from_cache_result(tbl, a, m, u)

\* the cached flag is set and the intent is queued whatever
\* update_email_cache_only returned
mark_email_read_async_unchecked(a, m, u, un) ==
    /\ submitted < MaxSubmit
    /\ emails' = update_unread(emails, a, m, u, un)
    /\ Enqueue(a, MarkRead(m, u, un, submitted + 1))
    /\ UNCHANGED <<remote, mailbox_metadata, op_logs, pass>>
    /\ UNCHANGED <<pending_ops, worker, received, remoteCalls, emitted>>
    /\ UNCHANGED <<poolVars, viewVars>>

\* mark_email_read_async: the cached flag is set first; the error of
\* update_email_cache_only (no cached row) is returned before anything is
\* queued
mark_email_read_async(a, m, u, un) ==
    /\ submitted < MaxSubmit
    /\ IF update_email_cache_only_result(emails, a, m, u).ok
         THEN /\ emails' = update_unread(emails, a, m, u, un)
              /\ Enqueue(a, MarkRead(m, u, un, submitted + 1))
         ELSE /\ submitted' = submitted + 1
              /\ emails' = update_unread(emails, a, m, u, un)
              /\ UNCHANGED <<ACCOUNT_QUEUES, channel>>
    /\ UNCHANGED <<remote, mailbox_metadata, op_logs, pass>>
    /\ UNCHANGED <<pending_ops, worker, received, remoteCalls, emitted>>
    /\ UNCHANGED <<poolVars, viewVars>>

\* delete_email: the row is removed from the cache, then move-to-trash is
\* queued
delete_email(a, m, u) ==
    /\ submitted < MaxSubmit
    /\ emails' = delete_email_from_cache(emails, a, m, u)
    /\ IF delete_email_from_cache_result(emails, a, m, u).ok
         THEN Enqueue(a, MoveToTrash(m, u, submitted + 1))
         ELSE /\ submitted' = submitted + 1
              /\ UNCHANGED <<ACCOUNT_QUEUES, channel>>
    /\ UNCHANGED <<remote, mailbox_metadata, op_logs, pass>>
    /\ UNCHANGED <<pending_ops, worker, received, remoteCalls, emitted>>
    /\ UNCHANGED <<poolVars, viewVars>>

\* permanent_delete_email: the row is removed from the cache, then delete
\* is queued
permanent_delete_email(a, m, u) ==
    /\ submitted < MaxSubmit
    /\ emails' = delete_email_from_cache(emails, a, m, u)
    /\ IF delete_email_from_cache_result(emails, a, m, u).ok
         THEN Enqueue(a, Delete(m, u, submitted + 1))
         ELSE /\ submitted' = submitted + 1
              /\ UNCHANGED <<ACCOUNT_QUEUES, channel>>
    /\ UNCHANGED <<remote, mailbox_metadata, op_logs, pass>>
    /\ UNCHANGED <<pending_ops, worker, received, remoteCalls, emitted>>
    /\ UNCHANGED <<poolVars, viewVars>>

\* start_sync, and one queue_sync of the background timer
start_sync(a, m) ==
    /\ submitted < MaxSubmit
    /\ Enqueue(a, SyncMailbox(m, submitted + 1))
    /\ UNCHANGED storeVars
    /\ UNCHANGED <<pending_ops, worker, received, remoteCalls, emitted>>
    /\ UNCHANGED <<poolVars, viewVars>>

\* process_pending_ops, line 301: the pending map is drained into the list
\* of intents to run
Drain(w, pm, next) ==
    [w EXCEPT !.pc = "flush", !.batch = pm, !.after = next,
              !.window = w.window + 1]

\* a sync intent never has the pending intents processed first
FlushBeforeSyncNever(pm) == FALSE

\* account_worker, lines 274-276: pending intents are processed before a
\* sync pass
FlushBeforeSync(pm) == DOMAIN pm # {}

\* account_worker, Ok(Some(op)): an intent is received; a non-sync intent
\* goes into the pending map under its key, a sync intent has the pending
\* intents processed first
Recv(a) ==
    LET w == worker[a]
        op == Head(channel[a])
    IN
    /\ a \in ACCOUNT_QUEUES
    /\ w.pc = "recv"
    /\ channel[a] # <<>>
    /\ channel' = [channel EXCEPT ![a] = Tail(@)]
    /\ received' = [received EXCEPT ![a] =
                       Append(@, [op |-> op, window |-> w.window])]
    /\ IF op.kind # "sync"
         THEN /\ pending_ops' = [pending_ops EXCEPT ![a] =
                                    MapInsert(@, PendingKey(op), op)]
              /\ UNCHANGED worker
         ELSE IF FlushBeforeSync(pending_ops[a])
         THEN /\ worker' = [worker EXCEPT ![a] = Drain(w, pending_ops[a], op)]
              /\ pending_ops' = [pending_ops EXCEPT ![a] = EmptyMap]
         ELSE /\ worker' = [worker EXCEPT ![a] =
                              [w EXCEPT !.pc = "sync", !.after = op]]
              /\ UNCHANGED pending_ops
    /\ UNCHANGED <<ACCOUNT_QUEUES, submitted, remoteCalls, emitted>>
    /\ UNCHANGED <<storeVars, poolVars, viewVars>>

\* a timer that is not restarted by the arrival of an intent
TimeoutWhileArriving(a) ==
    LET w == worker[a] IN
    /\ a \in ACCOUNT_QUEUES
    /\ w.pc = "recv"
    /\ DOMAIN pending_ops[a] # {}
    /\ worker' = [worker EXCEPT ![a] = Drain(w, pending_ops[a], NoOp)]
    /\ pending_ops' = [pending_ops EXCEPT ![a] = EmptyMap]
    /\ UNCHANGED <<ACCOUNT_QUEUES, channel, submitted, received, remoteCalls,
                   emitted>>
    /\ UNCHANGED <<storeVars, poolVars, viewVars>>

\* account_worker, Err(_): no intent for 100 ms; the pending intents are
\* processed
Timeout(a) ==
    LET w == worker[a] IN
    /\ a \in ACCOUNT_QUEUES
    /\ w.pc = "recv"
    /\ channel[a] = <<>>
    /\ DOMAIN pending_ops[a] # {}
    /\ worker' = [worker EXCEPT ![a] = Drain(w, pending_ops[a], NoOp)]
    /\ pending_ops' = [pending_ops EXCEPT ![a] = EmptyMap]
    /\ UNCHANGED <<ACCOUNT_QUEUES, channel, submitted, received, remoteCalls,
                   emitted>>
    /\ UNCHANGED <<storeVars, poolVars, viewVars>>

\* what the worker gets back from the remote operation of an intent:
\* success or an error (an error of with_imap_connection and a JoinError
\* of spawn_blocking are handled alike)
Outcomes == {Ok, Err("denied")}

\* mark_read_imap on the server: +FLAGS (\Seen) or -FLAGS (\Seen)
StoreSeen(box, u, un) ==
    [i \in 1..Len(box) |->
        IF box[i].uid = u THEN [box[i] EXCEPT !.seen = ~un] ELSE box[i]]

\* delete_imap and move_to_trash_imap on the source mailbox: the message
\* is flagged \Deleted and expunged
Expunge(box, u) == SelectSeq(box, LAMBDA msg : msg.uid # u)

\* the server after the remote operation of an intent succeeded
RemoteEffect(rm, a, op) ==
    [rm EXCEPT ![a][op.mailbox] =
        IF op.kind = "mark" THEN StoreSeen(@, op.uid, op.unread)
        ELSE Expunge(@, op.uid)]

\* the worker leaves process_pending_ops: on to the sync pass that asked
\* for the flush, or back to the channel
AfterFlush(w) ==
    IF w.after.kind = "sync" THEN [w EXCEPT !.pc = "sync", !.cur = NoOp]
    ELSE [w EXCEPT !.pc = "recv", !.cur = NoOp, !.curResult = NoResult]

\* process_pending_ops, the spawn_blocking call of one drained intent: the
\* intents leave the drained HashMap in an order the map chooses
ExecOp(a, k, r) ==
    LET w == worker[a]
        op == w.batch[k]
    IN
    /\ w.pc = "flush"
    /\ w.cur = NoOp
    /\ k \in DOMAIN w.batch
    /\ remote' = IF r.ok THEN RemoteEffect(remote, a, op) ELSE remote
    /\ remoteCalls' = [remoteCalls EXCEPT ![a] =
                          Append(@, [op |-> op, window |-> w.window - 1,
                                     result |-> r])]
    /\ worker' = [worker EXCEPT ![a] =
                    [w EXCEPT !.batch = MapRemove(w.batch, k), !.cur = op,
                              !.curResult = r]]
    /\ UNCHANGED <<emails, mailbox_metadata, op_logs, pass>>
    /\ UNCHANGED <<ACCOUNT_QUEUES, channel, pending_ops, submitted, received,
                   emitted>>
    /\ UNCHANGED <<poolVars, viewVars>>

\* the operation column of op_logs
LogName(op) == IF op.kind = "del" THEN "delete" ELSE "move_trash"

\* the audit-log rows the worker writes for a finished intent: none for
\* mark-read, one for delete and move-to-trash
LogRows(a, op, r) ==
    IF op.kind = "mark" THEN <<>>
    ELSE IF r.ok
      THEN <<log_op(a, op.mailbox, LogName(op), op.uid, "success", "none")>>
      ELSE <<log_op(a, op.mailbox, LogName(op), op.uid, "failed", r.err)>>

\* the row of the intent is deleted whatever the intent and its result
CacheAfterResultAlways(tbl, a, op, r) ==
    delete_email_from_cache(tbl, a, op.mailbox, op.uid)

\* the cache after the worker handled the result of an intent: only a
\* successful delete or move-to-trash touches it (lines 332-335, 351-354)
CacheAfterResult(tbl, a, op, r) ==
    IF op.kind # "mark" /\ r.ok
      THEN delete_email_from_cache(tbl, a, op.mailbox, op.uid)
      ELSE tbl

\* process_pending_ops, the handling of the result: a failed mark-read is
\* only printed; a failed delete or move-to-trash is logged as failed; a
\* successful one deletes the row from the cache again and is logged
HandleResult(a) ==
    LET w == worker[a]
        op == w.cur
        r == w.curResult
        w1 == [w EXCEPT !.cur = NoOp, !.curResult = NoResult]
    IN
    /\ w.pc = "flush"
    /\ op # NoOp
    /\ emails' = CacheAfterResult(emails, a, op, r)
    /\ op_logs' = op_logs \o LogRows(a, op, r)
    /\ worker' = [worker EXCEPT ![a] =
                    IF DOMAIN w.batch = {} THEN AfterFlush(w1) ELSE w1]
    /\ UNCHANGED <<remote, mailbox_metadata, pass>>
    /\ UNCHANGED <<ACCOUNT_QUEUES, channel, pending_ops, submitted, received,
                   remoteCalls, emitted>>
    /\ UNCHANGED <<poolVars, viewVars>>

\* the app handle the setup hook stored before any command runs
APP_HANDLE == TRUE

\* app.emit, if the handle is there
emit(ev) == IF APP_HANDLE THEN <<ev>> ELSE <<>>

SyncStartedEvent(a, m) ==
    [name |-> "sync-started", account |-> a, mailbox |-> m]

SyncCompleteEvent(a, m, p) ==
    [name |-> "sync-complete", account |-> a, mailbox |-> m,
     new_emails |-> p.new_count, updated_emails |-> p.updated_count,
     total_emails |-> Cardinality(p.server_uids),
     deleted_emails |-> p.deleted_count]

SyncErrorEvent(a, m, e) ==
    [name |-> "sync-error", account |-> a, mailbox |-> m, error |-> e]

\* both notifications whatever the result
EndEventsBoth(a, m, p) ==
    emit(SyncCompleteEvent(a, m, p)) \o emit(SyncErrorEvent(a, m, p.result.err))

\* the notification of process_sync for the result of the pass
EndEvents(a, m, p) ==
    IF p.result.ok
      THEN emit(SyncCompleteEvent(a, m, p))
      ELSE emit(SyncErrorEvent(a, m, p.result.err))

\* process_sync and sync_with_pool up to the pass: the pooled session is
\* acquired (connect may fail) and sync_emails_with_session starts
process_sync_begin(a, f) ==
    LET w == worker[a]
        p == [IdlePass EXCEPT !.pc = "select", !.variant = "session",
                              !.acct = a, !.mailbox = w.after.mailbox,
                              !.before = Before(emails, a, w.after.mailbox)]
    IN
    /\ w.pc = "sync"
    /\ pass[a].pc = "idle"
    /\ pass' = [pass EXCEPT ![a] = IF f.ok THEN p ELSE Finish(p, f)]
    /\ remoteCalls' = [remoteCalls EXCEPT ![a] =
                          Append(@, [op |-> w.after, window |-> w.window,
                                     result |-> NoResult])]
    /\ emitted' = [emitted EXCEPT ![a] =
                      @ \o emit(SyncStartedEvent(a, w.after.mailbox))]
    /\ UNCHANGED <<remote, emails, mailbox_metadata, op_logs>>
    /\ UNCHANGED <<ACCOUNT_QUEUES, channel, pending_ops, worker, submitted,
                   received>>
    /\ UNCHANGED <<poolVars, viewVars>>

\* process_sync after the pass returned: sync-complete or sync-error is
\* emitted and the worker goes back to its channel
process_sync_end(a) ==
    LET w == worker[a] IN
    /\ w.pc = "sync"
    /\ pass[a].pc = "done"
    /\ pass' = [pass EXCEPT ![a] = IdlePass]
    /\ worker' = [worker EXCEPT ![a] = [w EXCEPT !.pc = "recv", !.after = NoOp]]
    /\ emitted' = [emitted EXCEPT ![a] =
                      @ \o EndEvents(a, w.after.mailbox, pass[a])]
    /\ UNCHANGED <<remote, emails, mailbox_metadata, op_logs>>
    /\ UNCHANGED <<ACCOUNT_QUEUES, channel, pending_ops, submitted, received,
                   remoteCalls>>
    /\ UNCHANGED <<poolVars, viewVars>>

\* the mailbox the commands of the queue model work on
QueueMailboxes == {"INBOX"}

\* the INBOX of every account when the commands start: recent messages,
\* those with an even uid seen
SeedBox == [i \in 1..MaxUid |-> Message(i, i % 2 = 0, 0, TRUE)]

\* the cache in step with SeedBox; the body of message 1 is not stored
SeedCache ==
    [k \in Accounts \X {"INBOX"} \X Uids |-> Row(k[3] % 2 # 0, k[3] # 1, 0)]

InitQueue ==
    /\ InitPool
    /\ InitQueueIdle
    /\ InitViewIdle
    /\ remote = [a \in Accounts |-> [m \in Mailboxes |->
                    IF m = "INBOX" THEN SeedBox ELSE <<>>]]
    /\ emails = SeedCache
    /\ mailbox_metadata = {}
    /\ op_logs = <<>>
    /\ pass = [r \in Runners |-> IdlePass]

\* the account whose queue is followed
QueueAccounts == {"a1"}

\* the remote failures a sync pass of the worker meets
WorkerFaults == {Ok, Err("eof")}

\* the commands of the UI layer that submit an intent
CommandStep ==
    \/ \E a \in QueueAccounts, m \in QueueMailboxes, u \in Uids,
          un \in BOOLEAN : mark_email_read_async(a, m, u, un)
    \/ \E a \in QueueAccounts, m \in QueueMailboxes, u \in Uids :
          delete_email(a, m, u)
    \/ \E a \in QueueAccounts, m \in QueueMailboxes, u \in Uids :
          permanent_delete_email(a, m, u)
    \/ \E a \in QueueAccounts, m \in QueueMailboxes : start_sync(a, m)

\* the keys an account's worker can hold
PendingKeys ==
    {PendingKey(MarkRead(m, u, FALSE, 0)) : m \in QueueMailboxes, u \in Uids}
    \cup {PendingKey(Delete(m, u, 0)) : m \in QueueMailboxes, u \in Uids}
    \cup {PendingKey(MoveToTrash(m, u, 0)) : m \in QueueMailboxes, u \in Uids}

\* the steps of the account workers
WorkerStep ==
    \/ \E a \in QueueAccounts : Recv(a)
    \/ \E a \in QueueAccounts : Timeout(a)
    \/ \E a \in QueueAccounts, k \in PendingKeys, r \in Outcomes :
          ExecOp(a, k, r)
    \/ \E a \in QueueAccounts : HandleResult(a)
    \/ \E a \in QueueAccounts, f \in WorkerFaults : process_sync_begin(a, f)
    \/ \E a \in QueueAccounts : process_sync_end(a)
    \/ \E a \in QueueAccounts : SessionStep(a, WorkerFaults)

NextQueue == CommandStep \/ WorkerStep

SpecQueue == InitQueue /\ [][NextQueue]_vars

(***************************************************************************)
(* Properties of the operation queue.                                      *)
(***************************************************************************)
NonSync(op) == op.kind \in {"mark", "del", "trash"}

\* the intents of window n were drained and all of them were run
Flushed(a, n) ==
    \/ n < worker[a].window - 1
    \/ n = worker[a].window - 1 /\ worker[a].pc # "flush"

\* the entry j of received[a] is the last of its key in its window
Survives(a, j) ==
    LET R == received[a] IN
    \A l \in DOMAIN R :
        l > j => ~(/\ R[l].window = R[j].window
                   /\ PendingKey(R[l].op) = PendingKey(R[j].op))

\* the remote calls made for key k of window n
CallsFor(a, k, n) ==
    {i \in DOMAIN remoteCalls[a] :
        /\ NonSync(remoteCalls[a][i].op)
        /\ remoteCalls[a][i].window = n
        /\ PendingKey(remoteCalls[a][i].op) = k}

\* C6: of the intents an account's worker receives within one batching
\* window under one (kind, mailbox, uid) key only the last is run: every
\* remote call is that of the last intent of its key and window, a key has
\* at most one call per window, and exactly one once the window is flushed
\* (mark-read(true) then mark-read(false): one store of the value false).
C6_BatchingCollapse ==
    \A a \in QueueAccounts :
        LET R == received[a]
            C == remoteCalls[a]
        IN
        /\ \A i \in DOMAIN C :
              NonSync(C[i].op) =>
                  \E j \in DOMAIN R : /\ R[j].op = C[i].op
                                      /\ R[j].window = C[i].window
                                      /\ Survives(a, j)
        /\ \A j \in DOMAIN R :
              NonSync(R[j].op) =>
                  LET n == Cardinality(CallsFor(a, PendingKey(R[j].op),
                                                R[j].window))
                  IN  n <= 1 /\ (Flushed(a, R[j].window) => n = 1)

\* mark-read(true) and then mark-read(false) of one message were received
\* in one window, the window was flushed, and the store carried false
C6_Witness ==
    \E a \in QueueAccounts :
        LET R == received[a]
            C == remoteCalls[a]
        IN
        \E i, j \in DOMAIN R :
            /\ i < j
            /\ R[i].op.kind = "mark" /\ R[j].op.kind = "mark"
            /\ R[i].op.unread /\ ~R[j].op.unread
            /\ PendingKey(R[i].op) = PendingKey(R[j].op)
            /\ R[i].window = R[j].window
            /\ Flushed(a, R[j].window)
            /\ \E c \in DOMAIN C : C[c].op = R[j].op /\ C[c].result.ok

\* C7: the intents of one account are run remotely in the order they were
\* submitted, whatever their kinds: of two remote operations of an account
\* the one that ran first belongs to the intent submitted first.
C7_SubmissionOrder ==
    \A a \in QueueAccounts :
        \A i, j \in DOMAIN remoteCalls[a] :
            i < j => remoteCalls[a][i].op.seq < remoteCalls[a][j].op.seq

IsSync(e) == e.op.kind = "sync"

\* C8: a sync pass begins only when no received intent waits to be run
\* (the pending map and the drained batch are empty while a pass runs and
\* every non-sync intent received before the sync intent had its remote
\* call), and the sync intents received are run as sync passes one by one
\* in the order they arrived, one pass each.
C8_SyncAfterFlush ==
    \A a \in QueueAccounts :
        LET w == worker[a]
            R == received[a]
            C == remoteCalls[a]
            SR == SelectSeq(R, IsSync)
            SC == SelectSeq(C, IsSync)
        IN
        /\ pass[a].pc # "idle" =>
              /\ DOMAIN pending_ops[a] = {}
              /\ DOMAIN w.batch = {}
              /\ w.cur = NoOp
        /\ \A i \in DOMAIN C, j \in DOMAIN R :
              (IsSync(C[i]) /\ NonSync(R[j].op) /\ R[j].op.seq < C[i].op.seq)
                 => \E c \in 1..(i - 1) :
                       /\ C[c].window = R[j].window
                       /\ PendingKey(C[c].op) = PendingKey(R[j].op)
        /\ Len(SC) <= Len(SR)
        /\ \A i \in 1..Len(SC) : SC[i].op = SR[i].op
        /\ Len(SR) > Len(SC) =>
              /\ Len(SR) = Len(SC) + 1
              /\ w.pc \in {"flush", "sync"}
              /\ w.after = SR[Len(SR)].op
        /\ w.pc = "recv" => Len(SC) = Len(SR)

\* a sync intent arrived while an intent was pending, the pending intent
\* ran first and the sync pass after it
C8_Witness ==
    \E a \in QueueAccounts :
        LET R == received[a]
            C == remoteCalls[a]
        IN
        /\ worker[a].pc = "recv"
        /\ \E j, k \in DOMAIN R :
              /\ j < k
              /\ NonSync(R[j].op) /\ IsSync(R[k])
              /\ R[j].window = R[k].window
              /\ \E c, d \in DOMAIN C :
                    c < d /\ C[c].op = R[j].op /\ C[d].op = R[k].op

\* the result of the remote call i of account a was handled by the worker
Handled(a, i) == ~(i = Len(remoteCalls[a]) /\ worker[a].cur # NoOp)

\* C9: every surviving non-sync intent is run remotely exactly once (never
\* twice, and once when its window is flushed), and each failed run has a
\* row in the audit log with status failed and the error.
C9_FailureLogged ==
    \A a \in QueueAccounts :
        LET R == received[a]
            C == remoteCalls[a]
        IN
        /\ \A j \in DOMAIN R :
              (NonSync(R[j].op) /\ Survives(a, j)) =>
                  LET n == Cardinality({i \in DOMAIN C : C[i].op = R[j].op})
                  IN  n <= 1 /\ (Flushed(a, R[j].window) => n = 1)
        /\ \A i \in DOMAIN C :
              (NonSync(C[i].op) /\ ~C[i].result.ok /\ Handled(a, i)) =>
                  \E l \in DOMAIN op_logs :
                      /\ op_logs[l].account = a
                      /\ op_logs[l].mailbox = C[i].op.mailbox
                      /\ op_logs[l].uid = C[i].op.uid
                      /\ op_logs[l].status = "failed"
                      /\ op_logs[l].error = C[i].result.err

(***************************************************************************)
(* The optimistic delete commands beside the sync_emails command: the      *)
(* commands delete from the cache and queue their intent, the account's    *)
(* worker runs the intents, and the thread of a sync_emails command runs   *)
(* its pass on a connection of its own.                                    *)
(***************************************************************************)
\* the sync_emails command (lib.rs) is called: mail::sync_emails starts
sync_emails(a, m) ==
    /\ pass[UiThread].pc = "idle"
    /\ StartPass(UiThread, "full", a, m)
    /\ UNCHANGED <<remote, emails, mailbox_metadata, op_logs>>
    /\ UNCHANGED <<poolVars, queueVars, viewVars>>

\* the delete commands, MaxDelete of them
DeleteStep ==
    \/ \E a \in QueueAccounts, m \in QueueMailboxes, u \in Uids :
          submitted < MaxDelete /\ delete_email(a, m, u)
    \/ \E a \in QueueAccounts, m \in QueueMailboxes, u \in Uids :
          submitted < MaxDelete /\ permanent_delete_email(a, m, u)

FlushStep ==
    \/ \E a \in QueueAccounts : Recv(a)
    \/ \E a \in QueueAccounts : Timeout(a)
    \/ \E a \in QueueAccounts, k \in PendingKeys, r \in Outcomes :
          ExecOp(a, k, r)
    \/ \E a \in QueueAccounts : HandleResult(a)

NextRace ==
    \/ DeleteStep
    \/ FlushStep
    \/ \E a \in QueueAccounts, m \in QueueMailboxes : sync_emails(a, m)
    \/ FullStep(UiThread, WorkerFaults)

SpecRace == InitQueue /\ [][NextRace]_vars

\* C10: once a delete or move-to-trash intent succeeded remotely and the
\* worker finished with it, the cache holds no row for its message, also
\* when a sync pass that runs beside the worker stored the message again
\* because it was still on the server.
C10_DeleteSurvivesSync ==
    \A a \in QueueAccounts :
        \A i \in DOMAIN remoteCalls[a] :
            LET c == remoteCalls[a][i] IN
            (c.op.kind \in {"del", "trash"} /\ c.result.ok /\ Handled(a, i))
                => <<a, c.op.mailbox, c.op.uid>> \notin DOMAIN emails

(***************************************************************************)
(* Properties of the optimistic commands and of submission.                *)
(***************************************************************************)
\* C11: when delete_email, permanent_delete_email or mark_email_read_async
\* returns success the cache already shows the change (the row is gone, or
\* its unread flag is the one asked for), and when the worker runs an
\* intent and handles a failed result no cache row changes: the change is
\* not rolled back.
C11_OptimisticCache ==
    [][\A a \in QueueAccounts, m \in QueueMailboxes, u \in Uids :
          /\ (delete_email(a, m, u) \/ permanent_delete_email(a, m, u))
                => <<a, m, u>> \notin DOMAIN emails'
          /\ \A un \in BOOLEAN :
                (mark_email_read_async(a, m, u, un)
                    /\ <<a, m, u>> \in DOMAIN emails)
                  => /\ <<a, m, u>> \in DOMAIN emails'
                     /\ emails'[<<a, m, u>>].unread = un
          /\ (\E k \in PendingKeys, r \in Outcomes : ExecOp(a, k, r))
                => emails' = emails
          /\ (HandleResult(a) /\ ~worker[a].curResult.ok)
                => emails' = emails]_vars

\* a move-to-trash failed remotely and the worker is done with it: the
\* message is still on the server and its row is still gone from the cache;
\* or a mark-read failed and the row still carries the flag asked for
C11_Witness ==
    \E a \in QueueAccounts :
        \E i \in DOMAIN remoteCalls[a] :
            LET c == remoteCalls[a][i]
                key == <<a, c.op.mailbox, c.op.uid>>
            IN
            /\ NonSync(c.op) /\ ~c.result.ok /\ Handled(a, i)
            /\ worker[a].pc = "recv" /\ channel[a] = <<>>
            /\ Len(remoteCalls[a]) = 1
            /\ \E j \in 1..Len(remote[a][c.op.mailbox]) :
                  remote[a][c.op.mailbox][j].uid = c.op.uid
            /\ c.op.kind = "trash"
            /\ key \notin DOMAIN emails

QueuedLast(a, op) ==
    /\ Len(channel'[a]) = Len(channel[a]) + 1
    /\ channel'[a][Len(channel'[a])] = op

\* C13: every intent submitted through queue_mark_read, queue_delete,
\* queue_move_to_trash or queue_sync reaches the account's worker, in
\* submission order, and none is dropped however many are outstanding.  The
\* part checked here is the one the receipt depends on: each submission puts
\* its intent at the end of the account's channel, and the worker has
\* received intents in increasing order of submission.
C13_NoIntentDropped ==
    [][\A a \in QueueAccounts, m \in QueueMailboxes :
          /\ start_sync(a, m) => QueuedLast(a, SyncMailbox(m, submitted + 1))
          /\ \A u \in Uids :
                /\ delete_email(a, m, u)
                      => QueuedLast(a, MoveToTrash(m, u, submitted + 1))
                /\ permanent_delete_email(a, m, u)
                      => QueuedLast(a, Delete(m, u, submitted + 1))
                /\ \A un \in BOOLEAN :
                      (mark_email_read_async(a, m, u, un)
                          /\ <<a, m, u>> \in DOMAIN emails)
                        => QueuedLast(a, MarkRead(m, u, un, submitted + 1))
          /\ \A i, j \in DOMAIN received[a] :
                i < j => received[a][i].op.seq < received[a][j].op.seq]_vars

\* the sync intents whose processing the worker of the account has begun
SyncsBegun(a) ==
    Cardinality({i \in DOMAIN remoteCalls[a] : IsSync(remoteCalls[a][i])})

\* C14: for every sync intent the worker processes, one started
\* notification is emitted first and then exactly one of completed or
\* failed, never both; the completed notification carries the counts the
\* pass returned.
C14_SyncLifecycle ==
    [][\A a \in QueueAccounts :
          LET ev == emitted[a]
              running == IF pass[a].pc # "idle" THEN 1 ELSE 0
          IN
          /\ \A i \in DOMAIN ev :
                IF i % 2 = 1
                  THEN ev[i].name = "sync-started"
                  ELSE /\ ev[i].name \in {"sync-complete", "sync-error"}
                       /\ ev[i].mailbox = ev[i - 1].mailbox
          /\ Len(ev) = 2 * SyncsBegun(a) - running
          /\ process_sync_end(a) =>
                /\ Len(emitted'[a]) = Len(ev) + 1
                /\ LET e == emitted'[a][Len(ev) + 1]
                       p == pass[a]
                   IN
                   IF p.result.ok
                     THEN /\ e.name = "sync-complete"
                          /\ e.new_emails = p.new_count
                          /\ e.updated_emails = p.updated_count
                          /\ e.deleted_emails = p.deleted_count
                          /\ e.total_emails = Cardinality(p.server_uids)
                     ELSE /\ e.name = "sync-error"
                          /\ e.error = p.result.err]_vars

\* the worker processed two sync intents: one failed and one completed with
\* a message counted
C14_Witness ==
    \E a \in QueueAccounts :
        /\ Len(emitted[a]) = 4
        /\ \E i, j \in {2, 4} :
              /\ emitted[a][i].name = "sync-error"
              /\ emitted[a][j].name = "sync-complete"
              /\ emitted[a][j].total_emails > 0

(***************************************************************************)
(* The windowed passes alone, on mailboxes of unseen messages that parse   *)
(* and caches of unread rows without a body.                               *)
(***************************************************************************)
InitWindowed ==
    /\ InitPool
    /\ InitQueueIdle
    /\ InitViewIdle
    /\ \E box \in {b \in MailboxStates :
                        \A i \in DOMAIN b : b[i].parses /\ ~b[i].seen} :
          /\ remote = [a \in Accounts |-> [m \in Mailboxes |->
                          IF a = SyncAcct /\ m = SyncBox THEN box ELSE <<>>]]
          /\ emails \in {tbl \in CacheStates(box) :
                           \A k \in DOMAIN tbl \ {OtherKey} :
                              tbl[k].unread /\ ~tbl[k].body}
    /\ mailbox_metadata = {}
    /\ op_logs = <<>>
    /\ \E v \in Windowed :
          pass = [r \in Runners |->
                    IF r = RunnerOf(v)
                      THEN [IdlePass EXCEPT
                              !.pc = IF v \in OwnConnection THEN "connect"
                                     ELSE "select",
                              !.variant = v, !.acct = SyncAcct,
                              !.mailbox = SyncBox,
                              !.before = Before(emails, SyncAcct, SyncBox)]
                      ELSE IdlePass]

SpecWindowed == InitWindowed /\ [][NextSync]_vars

(***************************************************************************)
(* Properties of one sync pass.                                            *)
(***************************************************************************)
\* set A of a windowed pass: the uids of the last MIN_SYNC_EMAILS messages
CountBounded(p) ==
    LET total == Len(Box(p))
        start_seq == IF total > MIN_SYNC_EMAILS
                       THEN total - MIN_SYNC_EMAILS + 1 ELSE 1
    IN SeqUids(FetchRange(Box(p), start_seq))

\* a pass whose search failed returned success: its candidate set is set A,
\* every candidate that parses is cached, nothing else is cached for the
\* mailbox, and the bookmark is there
DegradedPassComplete(p, tbl, meta) ==
    (p.search_failed /\ p.pc = "done" /\ p.result.ok) =>
        /\ p.server_uids = CountBounded(p)
        /\ get_cached_uids(tbl, p.acct, p.mailbox) \subseteq p.server_uids
        /\ \A i \in DOMAIN Box(p) :
              (Box(p)[i].uid \in p.server_uids /\ Box(p)[i].parses)
                => Box(p)[i].uid \in get_cached_uids(tbl, p.acct, p.mailbox)
        /\ <<p.acct, p.mailbox>> \in meta

\* C15: when the time-bounded search fails the pass does not return an
\* error: it goes on with set A as the whole candidate set and completes
\* the diff, the fetch, the eviction, the prefetch and the bookmark.
C15_SearchFailureDegrades ==
    [][\A r \in Runners :
          /\ \A f \in Results :
                (sync_search(r, f) /\ ~f.ok)
                  => /\ pass'[r].pc = "missing"
                     /\ pass'[r].result = NoResult
                     /\ pass'[r].recent_uids = {}
                     /\ pass'[r].fetched_uids = CountBounded(pass[r])
          /\ DegradedPassComplete(pass'[r], emails', mailbox_metadata')]_vars

\* the search failed, the pass returned success, and a recent message that
\* only the search would have found was evicted from the cache
C15_Witness ==
    \E r \in Runners :
        LET p == pass[r] IN
        /\ p.search_failed /\ p.pc = "done" /\ p.result.ok
        /\ p.deleted_count > 0
        /\ \E i \in DOMAIN Box(p) :
              /\ Box(p)[i].age = 0
              /\ Box(p)[i].uid \notin p.server_uids

\* the pass ran to its end without a failure: every remote call answered
\* and every message parsed (the swallowed failures leave no trace but the
\* one of the search)
CleanPass(p) ==
    /\ p.variant = "session"
    /\ p.pc = "done" /\ p.result.ok /\ ~p.search_failed
    /\ \A i \in DOMAIN Box(p) : Box(p)[i].parses

\* the server's unread flag of a uid of the mailbox
ServerUnread(p, u) ==
    \E i \in DOMAIN Box(p) : Box(p)[i].uid = u /\ ~Box(p)[i].seen

\* the counts the pass returned are those of its candidate set against the
\* cache before the pass
CountsRight(p) ==
    LET cand == p.server_uids
        old == DOMAIN p.before
    IN
    /\ p.new_count = Cardinality(cand \ old)
    /\ p.updated_count =
          Cardinality({u \in cand \cap old : p.before[u] # ServerUnread(p, u)})
    /\ p.deleted_count = Cardinality(old \ cand)

\* C16: for a pass with no failure and no concurrent writer, new is the
\* number of candidate ids not cached before the pass, updated the number
\* of candidate ids cached before whose unread flag differed from the
\* server's, evicted the number of ids cached before that are not
\* candidates, and total the size of the candidate set.
C16_CountsOfPass ==
    \A r \in Runners : CleanPass(pass[r]) => CountsRight(pass[r])

\* the same for the passes that found at least one message in the mailbox
C16_CountsOfNonEmptyPass ==
    \A r \in Runners :
        (CleanPass(pass[r]) /\ Len(Box(pass[r])) > 0) => CountsRight(pass[r])

\* the select of a windowed pass succeeded and reported no message
SelectedEmpty(p) ==
    /\ p.variant \in Windowed
    /\ Len(Box(p)) = 0
    /\ "SELECT" \in p.issued
    /\ \/ p.pc = "logout"
       \/ p.pc = "done" /\ (p.result.ok \/ "LOGOUT" \in p.issued)

\* C17: when select reports no message in the mailbox the pass persists
\* the bookmark of the (account, mailbox) and returns new = 0, updated = 0,
\* evicted = 0, total = 0 without issuing any fetch or search.
C17_EmptyMailbox ==
    \A r \in Runners :
        LET p == pass[r] IN
        SelectedEmpty(p) =>
            /\ <<p.acct, p.mailbox>> \in mailbox_metadata
            /\ p.issued \subseteq {"SELECT", "LOGOUT"}
            /\ (p.pc = "done" /\ p.result.ok) =>
                  /\ p.new_count = 0 /\ p.updated_count = 0
                  /\ p.deleted_count = 0 /\ Cardinality(p.server_uids) = 0

\* the pooled pass returned success on an empty mailbox
C17_Witness ==
    \E r \in Runners :
        /\ pass[r].variant = "session"
        /\ SelectedEmpty(pass[r])
        /\ pass[r].pc = "done" /\ pass[r].result.ok
        /\ pass[r].issued = {"SELECT"}

(***************************************************************************)
(* Reading the cached list page by page.                                   *)
(***************************************************************************)
\* the most rows a mailbox's cache holds when it is read page by page
MaxRows == 5
\* the largest page size a reader asks for
MaxLimit == 3

\* the uids cached for a mailbox, whatever their range
RowUids(tbl, a, m) == {k[3] : k \in {j \in DOMAIN tbl : j[1] = a /\ j[2] = m}}

\* ORDER BY internal_date DESC: the most recent row first (rows of the same
\* date in the order of their uid)
RECURSIVE OrderByDateDesc(_, _, _, _)
OrderByDateDesc(tbl, a, m, S) ==
    IF S = {} THEN <<>>
    ELSE LET first == CHOOSE u \in S :
                         \A v \in S :
                            \/ tbl[<<a, m, u>>].age < tbl[<<a, m, v>>].age
                            \/ /\ tbl[<<a, m, u>>].age = tbl[<<a, m, v>>].age
                               /\ u <= v
         IN <<first>> \o OrderByDateDesc(tbl, a, m, S \ {first})

\* a page is not the last one even when it ends at the last row
has_more_inclusive(offset, limit, total) == offset + limit <= total

\* let has_more = offset + limit < total
has_more(offset, limit, total) == offset + limit < total

\* LIMIT limit OFFSET offset of the ordered rows
LimitOffset(rows, limit, offset) ==
    SubSeq(rows, offset + 1, Min(offset + limit, Len(rows)))

\* list_emails_paginated: the count, the early return for an empty mailbox,
\* has_more, and the rows of the page
list_emails_paginated(tbl, a, m, offset, limit) ==
    LET total == Cardinality(RowUids(tbl, a, m)) IN
    IF total = 0
      THEN [emails |-> <<>>, total |-> 0, offset |-> offset,
            has_more |-> FALSE]
      ELSE [emails |-> LimitOffset(OrderByDateDesc(tbl, a, m,
                                                   RowUids(tbl, a, m)),
                                   limit, offset),
            total |-> total, offset |-> offset,
            has_more |-> has_more(offset, limit, total)]

\* the list_emails_page command, called by a reader that asks for the pages at
\* offsets 0, limit, 2*limit, ... as long as rows are left
list_emails_page(a, m) ==
    LET offset == Len(reader.pages) * reader.limit IN
    /\ reader.acct = a /\ reader.mailbox = m
    /\ IF reader.pages = <<>> THEN TRUE
       ELSE offset < reader.pages[1].total
    /\ reader' = [reader EXCEPT !.pages =
                     Append(@, list_emails_paginated(emails, a, m, offset,
                                                     reader.limit))]
    /\ UNCHANGED <<attachments, saving, loaded, removal, marking, spawner>>
    /\ UNCHANGED <<poolVars, storeVars, queueVars>>

\* a cache of k rows of one mailbox, of alternating dates
PageRows(a, m, k) ==
    [j \in {<<a, m, u>> : u \in 1..k} |->
        Row(TRUE, TRUE, IF j[3] % 2 = 0 THEN 0 ELSE SYNC_DAYS + 1)]

InitPages ==
    /\ InitPool
    /\ InitQueueIdle
    /\ remote = [a \in Accounts |-> [m \in Mailboxes |-> <<>>]]
    /\ \E k1 \in 0..MaxRows, k2 \in 0..1 :
          emails = [j \in DOMAIN PageRows(SyncAcct, "INBOX", k1)
                          \cup DOMAIN PageRows(SyncAcct, "Archive", k2) |->
                       Row(TRUE, TRUE, IF j[3] % 2 = 0 THEN 0
                                       ELSE SYNC_DAYS + 1)]
    /\ mailbox_metadata = {}
    /\ op_logs = <<>>
    /\ pass = [r \in Runners |-> IdlePass]
    /\ attachments = NoAttachments
    /\ saving = IdleSaving
    /\ loaded = NothingLoaded
    /\ removal = NoRemoval
    /\ marking = NoMarking
    /\ spawner = NoSpawner
    /\ \E m \in Mailboxes, limit \in 1..MaxLimit :
          reader = [IdleReader EXCEPT !.acct = SyncAcct, !.mailbox = m,
                                      !.limit = limit]

NextPages == \E a \in Accounts, m \in Mailboxes : list_emails_page(a, m)

SpecPages == InitPages /\ [][NextPages]_vars

\* the rows cached for the reader's mailbox
Cached == Cardinality(RowUids(emails, reader.acct, reader.mailbox))

\* the reader has asked for every page
AllPagesRead ==
    /\ reader.pages # <<>>
    /\ Len(reader.pages) * reader.limit >= Cached

RECURSIVE SumOfLengths(_)
SumOfLengths(pages) ==
    IF pages = <<>> THEN 0
    ELSE Len(Head(pages).emails) + SumOfLengths(Tail(pages))

\* C18: for a mailbox of K cached messages that does not change and a
\* limit of at least 1, the pages at offsets 0, limit, 2*limit, ... have
\* lengths that sum to K, and has_more is false on the final page (the one
\* with the last message, or the single empty page when K = 0) and true on
\* every earlier page.
C18_Pagination ==
    /\ \A i \in DOMAIN reader.pages :
          /\ reader.pages[i].has_more <=> (i * reader.limit < Cached)
          /\ reader.pages[i].total = Cached
    /\ AllPagesRead =>
          /\ SumOfLengths(reader.pages) = Cached
          /\ ~reader.pages[Len(reader.pages)].has_more
          /\ \A i \in 1..(Len(reader.pages) - 1) : reader.pages[i].has_more

\* every page of a mailbox whose size is a multiple of the limit was read,
\* and there were at least two
C18_Witness ==
    /\ AllPagesRead
    /\ Len(reader.pages) >= 2
    /\ Cached = Len(reader.pages) * reader.limit
    /\ reader.limit >= 2

(***************************************************************************)
(* save_email_to_db statement by statement.                                *)
(***************************************************************************)
\* how many times save_email_to_db is called
MaxSaves == 2
\* the most attachments a message has
MaxParts == 2
\* the contents a message can have
Versions == 1..2

\* the part ids extract_attachments gives the attachments of a message:
\* the number of the part, then the attachment's rank
PartIdOf(i) == ToString(i + 1) \o "." \o ToString(i)

Attachment(i, v) == [part_id |-> PartIdOf(i), content |-> v]

\* the messages to save: a content and 0..MaxParts attachments
Emails ==
    {[row |-> Row(v = 1, TRUE, 0),
      attachments |-> [i \in 1..n |-> Attachment(i, v)]] :
        v \in Versions, n \in 0..MaxParts}

\* load_attachments: the attachment rows of one message, by part id
load_attachments(att, a, m, u) ==
    [q \in {k[4] : k \in {j \in DOMAIN att :
                              j[1] = a /\ j[2] = m /\ j[3] = u}} |->
        att[<<a, m, u, q>>]]

\* the attachment rows a message's list stands for
RowsOf(parts) ==
    [q \in {parts[i].part_id : i \in DOMAIN parts} |->
        parts[CHOOSE i \in DOMAIN parts : parts[i].part_id = q].content]

\* the attachment rows of the message are left in place
KeepAttachments(att, a, m, u) == att

\* DELETE FROM attachments WHERE account, mailbox, email_uid; also what
\* ON DELETE CASCADE does when the message's row is deleted
DeleteAttachments(att, a, m, u) ==
    [k \in {j \in DOMAIN att : ~(j[1] = a /\ j[2] = m /\ j[3] = u)} |->
        att[k]]

\* INSERT INTO attachments of one row whose primary key is free
InsertAttachment(att, a, m, u, part) ==
    [k \in DOMAIN att \cup {<<a, m, u, part.part_id>>} |->
        IF k = <<a, m, u, part.part_id>> THEN part.content ELSE att[k]]

\* the sync pass holds the DB lock and calls save_email_to_db for a
\* message it parsed
save_email_to_db_call(a, m, u, email) ==
    LET input == <<a, m, u, email>> IN
    /\ saving.pc = "idle"
    /\ saving.calls < MaxSaves
    /\ saving' = [saving EXCEPT
                     !.pc = "row", !.acct = a, !.mailbox = m, !.uid = u,
                     !.row = email.row, !.parts = email.attachments,
                     !.i = 1, !.result = NoResult, !.calls = @ + 1,
                     !.old = load_attachments(attachments, a, m, u),
                     !.start = <<emails, attachments>>,
                     !.repeat = (saving.last = input),
                     !.last = input, !.faults = 0]
    /\ UNCHANGED <<attachments, loaded, reader, removal, marking, spawner>>
    /\ UNCHANGED <<poolVars, storeVars, queueVars>>

\* the call returns the error of a statement that failed
Failed(sv, f) ==
    [sv EXCEPT !.pc = "done", !.result = f, !.faults = @ + 1]

\* INSERT OR REPLACE INTO emails: replacing deletes the old row, and
\* with foreign_keys=ON that deletes its attachment rows
insert_or_replace(f) ==
    LET sv == saving
        key == <<sv.acct, sv.mailbox, sv.uid>>
    IN
    /\ sv.pc = "row"
    /\ IF ~f.ok
         THEN /\ saving' = Failed(sv, f)
              /\ UNCHANGED <<emails, attachments>>
         ELSE /\ emails' = save_email_to_db(emails, sv.acct, sv.mailbox,
                                            sv.uid, sv.row)
              /\ attachments' =
                    IF key \in DOMAIN emails
                      THEN DeleteAttachments(attachments, sv.acct,
                                             sv.mailbox, sv.uid)
                      ELSE attachments
              /\ saving' = [sv EXCEPT !.pc = "delete"]
    /\ UNCHANGED <<loaded, reader, removal, marking, spawner>>
    /\ UNCHANGED <<remote, mailbox_metadata, op_logs, pass>>
    /\ UNCHANGED <<poolVars, queueVars>>

\* DELETE FROM attachments of the message; with no attachment to insert
\* the call returns Ok
delete_attachments(f) ==
    LET sv == saving IN
    /\ sv.pc = "delete"
    /\ IF ~f.ok
         THEN /\ saving' = Failed(sv, f)
              /\ UNCHANGED attachments
         ELSE /\ attachments' = DeleteAttachments(attachments, sv.acct,
                                                  sv.mailbox, sv.uid)
              /\ saving' = IF sv.parts = <<>>
                             THEN [sv EXCEPT !.pc = "done", !.result = Ok]
                             ELSE [sv EXCEPT !.pc = "insert"]
    /\ UNCHANGED <<loaded, reader, removal, marking, spawner>>
    /\ UNCHANGED <<poolVars, storeVars, queueVars>>

\* one turn of the loop over email.attachments: the INSERT fails when the
\* statement fails or the primary key is taken; after the last one the
\* call returns Ok
insert_attachment(f) ==
    LET sv == saving
        part == sv.parts[sv.i]
        taken == <<sv.acct, sv.mailbox, sv.uid, part.part_id>>
                    \in DOMAIN attachments
    IN
    /\ sv.pc = "insert"
    /\ taken => ~f.ok
    /\ IF ~f.ok
         THEN /\ saving' = IF taken THEN [sv EXCEPT !.pc = "done",
                                                    !.result = f]
                           ELSE Failed(sv, f)
              /\ UNCHANGED attachments
         ELSE /\ attachments' = InsertAttachment(attachments, sv.acct,
                                                 sv.mailbox, sv.uid, part)
              /\ saving' = IF sv.i = Len(sv.parts)
                             THEN [sv EXCEPT !.pc = "done", !.result = Ok]
                             ELSE [sv EXCEPT !.i = @ + 1]
    /\ UNCHANGED <<loaded, reader, removal, marking, spawner>>
    /\ UNCHANGED <<poolVars, storeVars, queueVars>>

\* the caller has the result (it counts the message only when Ok) and
\* later drops the DB lock
save_email_to_db_return ==
    /\ saving.pc = "done"
    /\ saving' = [saving EXCEPT !.pc = "idle",
                                !.last = IF saving.result.ok THEN @ ELSE <<>>]
    /\ UNCHANGED <<attachments, loaded, reader, removal, marking, spawner>>
    /\ UNCHANGED <<poolVars, storeVars, queueVars>>

\* get_email: under the DB lock, the row and its attachments
get_email(a, m, u) ==
    /\ saving.pc = "idle"
    /\ loaded' = [uid |-> u, found |-> <<a, m, u>> \in DOMAIN emails,
                  parts |-> load_attachments(attachments, a, m, u),
                  calls |-> saving.calls]
    /\ UNCHANGED <<attachments, saving, reader, removal, marking, spawner>>
    /\ UNCHANGED <<poolVars, storeVars, queueVars>>

\* the statement failures followed: an I/O error or a full disk
SaveFaults == {Ok, Err("denied")}

InitUpsert ==
    /\ InitPool
    /\ InitQueueIdle
    /\ InitStoreIdle
    /\ InitViewIdle

NextUpsert ==
    \/ \E email \in Emails : save_email_to_db_call(SyncAcct, SyncBox, 1, email)
    \/ \E f \in SaveFaults : insert_or_replace(f)
    \/ \E f \in SaveFaults : delete_attachments(f)
    \/ \E f \in SaveFaults : insert_attachment(f)
    \/ save_email_to_db_return
    \/ get_email(SyncAcct, SyncBox, 1)

SpecUpsert == InitUpsert /\ [][NextUpsert]_vars

\* the attachment rows stored for the message of the call
Stored == load_attachments(attachments, saving.acct, saving.mailbox, saving.uid)

\* C19: saving the same message (same account, mailbox, uid, content and
\* attachments) a second time leaves the store as the first save left it:
\* one row for the key and the same attachment rows.
C19_IdempotentUpsert ==
    (saving.pc = "done" /\ saving.repeat /\ saving.faults = 0) =>
        /\ saving.result.ok
        /\ <<emails, attachments>> = saving.start
        /\ <<saving.acct, saving.mailbox, saving.uid>> \in DOMAIN emails
        /\ emails[<<saving.acct, saving.mailbox, saving.uid>>] = saving.row
        /\ Stored = RowsOf(saving.parts)

\* a message with two attachments was saved twice in a row
C19_Witness ==
    /\ saving.pc = "done" /\ saving.repeat /\ saving.faults = 0
    /\ Len(saving.parts) = 2
    /\ saving.calls = 2

\* C20: a save replaces the message's row and all its attachment rows as
\* one unit: whatever the outcome of save_email_to_db (an error while the
\* attachments are inserted included), and whenever a reader loads the
\* message, the row's attachment rows are the complete old set or the
\* complete new set.
C20_AtomicUpsert ==
    /\ (/\ saving.pc \in {"done", "idle"}
        /\ saving.calls > 0
        /\ <<saving.acct, saving.mailbox, saving.uid>> \in DOMAIN emails)
          => Stored \in {saving.old, RowsOf(saving.parts)}
    /\ (/\ loaded.found
        /\ saving.calls > 0
        /\ loaded.calls = saving.calls
        /\ loaded.uid = saving.uid)
          => loaded.parts \in {saving.old, RowsOf(saving.parts)}

(***************************************************************************)
(* delete_email_from_cache, called on any cache.                           *)
(***************************************************************************)
MaxRemovals == 2

\* delete_email_from_cache: the DB lock, one DELETE statement whose error
\* is returned, Ok(()) otherwise; the attachment rows of a deleted row go
\* with it (ON DELETE CASCADE)
delete_email_from_cache_call(a, m, u, f) ==
    /\ saving.pc = "idle"
    /\ removal.calls < MaxRemovals
    /\ IF f.ok
       THEN /\ emails' = delete_email_from_cache(emails, a, m, u)
            /\ attachments' = IF <<a, m, u>> \in DOMAIN emails
                               THEN DeleteAttachments(attachments, a, m, u)
                               ELSE attachments
       ELSE UNCHANGED <<emails, attachments>>
    /\ removal' = [acct |-> a, mailbox |-> m, uid |-> u, result |-> f,
                   calls |-> removal.calls + 1, stmt |-> f,
                   start |-> <<emails, attachments>>,
                   repeat |-> /\ removal.result.ok
                              /\ <<removal.acct, removal.mailbox, removal.uid>>
                                    = <<a, m, u>>]
    /\ UNCHANGED <<saving, loaded, reader, marking, spawner>>
    /\ UNCHANGED <<remote, mailbox_metadata, op_logs, pass>>
    /\ UNCHANGED <<poolVars, queueVars>>

\* caches of one account: any rows of the two mailboxes, the odd uids with
\* one attachment
InitRemoval ==
    /\ InitPool
    /\ InitQueueIdle
    /\ remote = [a \in Accounts |-> [m \in Mailboxes |-> <<>>]]
    /\ mailbox_metadata = {}
    /\ op_logs = <<>>
    /\ pass = [r \in Runners |-> IdlePass]
    /\ \E keys \in SUBSET ({SyncAcct} \X Mailboxes \X Uids) :
          /\ emails = [k \in keys |-> Row(TRUE, TRUE, 0)]
          /\ attachments =
                [k \in {<<j[1], j[2], j[3], PartIdOf(1)>> :
                           j \in {i \in keys : i[3] % 2 = 1}} |-> 1]
    /\ saving = IdleSaving
    /\ loaded = NothingLoaded
    /\ reader = IdleReader
    /\ removal = NoRemoval
    /\ marking = NoMarking
    /\ spawner = NoSpawner

NextRemoval ==
    \E m \in Mailboxes, u \in Uids, f \in SaveFaults :
        delete_email_from_cache_call(SyncAcct, m, u, f)

SpecRemoval == InitRemoval /\ [][NextRemoval]_vars

\* the key of the last delete_email_from_cache call
Removed == <<removal.acct, removal.mailbox, removal.uid>>

\* C21: delete_email_from_cache is idempotent: when its statement runs it
\* returns success whether or not the key had a row; afterwards the key has
\* no row (and no attachment row); a call that repeats the call before it
\* leaves the store as it found it; the rows of every other key are what
\* they were.
C21_IdempotentDelete ==
    (removal.calls > 0 /\ removal.stmt.ok) =>
        /\ removal.result.ok
        /\ Removed \notin DOMAIN emails
        /\ load_attachments(attachments, removal.acct, removal.mailbox,
                            removal.uid) = NoAttachments
        /\ removal.repeat => <<emails, attachments>> = removal.start
        /\ DOMAIN emails = DOMAIN removal.start[1] \ {Removed}
        /\ \A k \in DOMAIN emails : emails[k] = removal.start[1][k]
        /\ \A k \in DOMAIN removal.start[2] :
              <<k[1], k[2], k[3]>> # Removed =>
                  /\ k \in DOMAIN attachments
                  /\ attachments[k] = removal.start[2][k]

\* the same key was deleted twice in a row, both calls returned success,
\* and rows of other keys (one with an attachment) are still cached
C21_Witness ==
    /\ removal.calls = 2 /\ removal.repeat /\ removal.result.ok
    /\ removal.uid = 1
    /\ Cardinality(DOMAIN emails) >= 2
    /\ attachments # NoAttachments

\* C22: no pass sends a command to the server (SELECT, FETCH, UID SEARCH,
\* UID FETCH, LOGOUT) while it holds the DB lock: every acquisition is
\* released before the next network round trip.
C22_NoRemoteCallUnderDbLock == \A r \in Runners : pass[r].held = {}

(***************************************************************************)
(* update_email_read_status: the server first, the cache afterwards.       *)
(***************************************************************************)
\* the call returns the error of step `at`
ReadStatusError(at, f) ==
    [marking EXCEPT !.pc = "done", !.result = f, !.failed = at]

\* the Tauri command mark_email_read calls update_email_read_status
update_email_read_status(a, m, u, unread) ==
    /\ marking.pc = "idle"
    /\ marking' = [marking EXCEPT !.pc = "account", !.acct = a,
                                  !.mailbox = m, !.uid = u,
                                  !.unread = unread, !.start = emails]
    /\ UNCHANGED <<attachments, saving, loaded, reader, removal, spawner>>
    /\ UNCHANGED <<poolVars, storeVars, queueVars>>

\* get_account(account_name)?
read_status_account(f) ==
    /\ marking.pc = "account"
    /\ marking' = IF f.ok THEN [marking EXCEPT !.pc = "connect"]
                  ELSE ReadStatusError("account", f)
    /\ UNCHANGED <<attachments, saving, loaded, reader, removal, spawner>>
    /\ UNCHANGED <<poolVars, storeVars, queueVars>>

\* connect_imap(&account)?
read_status_connect(f) ==
    /\ marking.pc = "connect"
    /\ marking' = IF f.ok THEN [marking EXCEPT !.pc = "select"]
                  ELSE ReadStatusError("connect", f)
    /\ UNCHANGED <<attachments, saving, loaded, reader, removal, spawner>>
    /\ UNCHANGED <<poolVars, storeVars, queueVars>>

\* session.select(mailbox)?
read_status_select(f) ==
    /\ marking.pc = "select"
    /\ marking' = IF f.ok THEN [marking EXCEPT !.pc = "store"]
                  ELSE ReadStatusError("select", f)
    /\ UNCHANGED <<attachments, saving, loaded, reader, removal, spawner>>
    /\ UNCHANGED <<poolVars, storeVars, queueVars>>

\* session.uid_store(uid, "-FLAGS (\\Seen)" or "+FLAGS (\\Seen)")?
read_status_store(f) ==
    /\ marking.pc = "store"
    /\ IF f.ok
       THEN /\ remote' = [remote EXCEPT ![marking.acct][marking.mailbox] =
                             StoreSeen(@, marking.uid, marking.unread)]
            /\ marking' = [marking EXCEPT !.pc = "logout", !.stored = TRUE]
       ELSE /\ marking' = ReadStatusError("store", f)
            /\ UNCHANGED remote
    /\ UNCHANGED <<emails, mailbox_metadata, op_logs, pass>>
    /\ UNCHANGED <<attachments, saving, loaded, reader, removal, spawner>>
    /\ UNCHANGED <<poolVars, queueVars>>

\* the failure of the logout is dropped
logout_ignored(f) == Ok

\* session.logout()?: the failure of the logout is the call's
logout_result(f) == f

read_status_logout(f) ==
    /\ marking.pc = "logout"
    /\ marking' = IF logout_result(f).ok
                    THEN [marking EXCEPT !.pc = "update",
                                         !.failed = IF f.ok THEN @
                                                    ELSE "logout"]
                    ELSE ReadStatusError("logout", logout_result(f))
    /\ UNCHANGED <<attachments, saving, loaded, reader, removal, spawner>>
    /\ UNCHANGED <<poolVars, storeVars, queueVars>>

\* the UPDATE of the unread column under the DB lock
read_status_update(f) ==
    /\ marking.pc = "update"
    /\ saving.pc = "idle"
    /\ IF f.ok
       THEN /\ emails' = update_unread(emails, marking.acct, marking.mailbox,
                                       marking.uid, marking.unread)
            /\ marking' = [marking EXCEPT !.pc = "get"]
       ELSE /\ marking' = ReadStatusError("update", f)
            /\ UNCHANGED emails
    /\ UNCHANGED <<remote, mailbox_metadata, op_logs, pass>>
    /\ UNCHANGED <<attachments, saving, loaded, reader, removal, spawner>>
    /\ UNCHANGED <<poolVars, queueVars>>

\* get_email(account_name, mailbox, uid): the row, or the error of a key
\* that has none
read_status_get_email ==
    LET key == <<marking.acct, marking.mailbox, marking.uid>> IN
    /\ marking.pc = "get"
    /\ saving.pc = "idle"
    /\ marking' = IF key \in DOMAIN emails
                    THEN [marking EXCEPT !.pc = "done", !.result = Ok]
                    ELSE ReadStatusError("get", Err("denied"))
    /\ loaded' = [uid |-> marking.uid, found |-> key \in DOMAIN emails,
                  parts |-> load_attachments(attachments, marking.acct,
                                             marking.mailbox, marking.uid),
                  calls |-> saving.calls]
    /\ UNCHANGED <<attachments, saving, reader, removal, spawner>>
    /\ UNCHANGED <<poolVars, storeVars, queueVars>>

\* a mailbox of any uids, seen or not, and a cache of any of the uids,
\* read or not
InitReadStatus ==
    /\ InitPool
    /\ InitQueueIdle
    /\ InitViewIdle
    /\ \E S \in SUBSET Uids, sn \in [Uids -> BOOLEAN] :
          remote = [a \in Accounts |-> [m \in Mailboxes |->
                      IF a = SyncAcct /\ m = SyncBox
                        THEN [i \in 1..Cardinality(S) |->
                                Message(SortedUids(S)[i],
                                        sn[SortedUids(S)[i]], 0, TRUE)]
                        ELSE <<>>]]
    /\ \E T \in SUBSET Uids, un \in [Uids -> BOOLEAN] :
          emails = [k \in {<<SyncAcct, SyncBox, u>> : u \in T} |->
                       Row(un[k[3]], TRUE, 0)]
    /\ mailbox_metadata = {}
    /\ op_logs = <<>>
    /\ pass = [r \in Runners |-> IdlePass]

NextReadStatus ==
    \/ \E u \in Uids, unread \in BOOLEAN :
          update_email_read_status(SyncAcct, SyncBox, u, unread)
    \/ \E f \in WorkerFaults : read_status_account(f)
    \/ \E f \in WorkerFaults : read_status_connect(f)
    \/ \E f \in WorkerFaults : read_status_select(f)
    \/ \E f \in WorkerFaults : read_status_store(f)
    \/ \E f \in WorkerFaults : read_status_logout(f)
    \/ \E f \in SaveFaults : read_status_update(f)
    \/ read_status_get_email

SpecReadStatus == InitReadStatus /\ [][NextReadStatus]_vars

\* the steps of update_email_read_status that come before the cache write
RemoteSteps == {"account", "connect", "select", "store", "logout"}

\* C23: update_email_read_status changes the flag on the server first and
\* in the cache afterwards: the cache differs from what it was at the call
\* only after store and logout succeeded, and if the account lookup, the
\* connect, the select, the store or the logout fails, that error is
\* returned and the cache is what it was at the call.
C23_RemoteFirst ==
    /\ (marking.pc # "idle" /\ emails # marking.start) =>
          marking.stored /\ marking.pc \in {"get", "done"}
    /\ marking.failed \in RemoteSteps =>
          /\ marking.pc = "done"
          /\ ~marking.result.ok
          /\ marking.result \in Results
          /\ emails = marking.start

\* the call changed the flag on the server, then its logout failed: the
\* error was returned and the row of the message is still cached unread
C23_Witness ==
    /\ marking.pc = "done" /\ marking.failed = "logout" /\ marking.stored
    /\ ~marking.unread
    /\ <<marking.acct, marking.mailbox, marking.uid>> \in DOMAIN emails
    /\ emails[<<marking.acct, marking.mailbox, marking.uid>>].unread
    /\ \E i \in 1..Len(remote[marking.acct][marking.mailbox]) :
          /\ remote[marking.acct][marking.mailbox][i].uid = marking.uid
          /\ remote[marking.acct][marking.mailbox][i].seen

(***************************************************************************)
(* sync_emails_with_session and sync_emails_improved side by side: the     *)
(* first on account a1, the second on account a2, whose mailbox and cache  *)
(* start as copies of a1's (messages that parse, seen or not, recent or    *)
(* not; rows unread and without a body), the n-th command of both answered *)
(* alike.                                                                  *)
(***************************************************************************)
\* the commands a windowed pass can send before its logout: SELECT, FETCH,
\* UID SEARCH, the UID FETCH of step 3, one UID FETCH per new uid at most,
\* and the UID FETCH of step 6
MaxCommands == 5 + MaxUid

\* the answer to the next command of the pass of runner r
PlanFault(r) ==
    IF pass[r].sent + 1 \in pass[r].plan THEN Err("eof") ELSE Ok

\* the rows SQLite answers step 6 with: the same rows for the same table
PrefetchAnswer(r) ==
    CHOOSE S \in get_uids_without_body(emails, pass[r].acct, pass[r].mailbox,
                                       PREFETCH_BODY_COUNT) : TRUE

\* one step of a windowed pass whose commands are answered by its plan
\* (the connect of sync_emails_improved succeeds, its logout may fail)
TwinStep(r) ==
    \/ sync_connect(r, Ok)
    \/ sync_select(r, PlanFault(r))
    \/ sync_fetch(r, PlanFault(r))
    \/ sync_search(r, PlanFault(r))
    \/ sync_missing(r, IF pass[r].recent_uids \subseteq pass[r].fetched_uids
                         THEN Ok ELSE PlanFault(r))
    \/ sync_diff(r)
    \/ sync_download(r, IF pass[r].new_uids = <<>> THEN Ok
                          ELSE PlanFault(r))
    \/ sync_save(r)
    \/ sync_flags(r)
    \/ sync_evict(r)
    \/ sync_prefetch(r, PrefetchAnswer(r),
                     IF PrefetchAnswer(r) = {} THEN Ok ELSE PlanFault(r))
    \/ sync_bodies(r)
    \/ sync_bookmark(r)
    \/ \E f \in WorkerFaults : sync_logout(r, f)

\* the two entry points compared
Twins == {"session", "improved"}

TwinAccount(v) == IF v = "session" THEN "a1" ELSE "a2"

InitTwin ==
    /\ InitPool
    /\ InitQueueIdle
    /\ InitViewIdle
    /\ \E box \in {b \in MailboxStates : \A i \in DOMAIN b : b[i].parses} :
          /\ remote = [a \in Accounts |-> [m \in Mailboxes |->
                          IF m = SyncBox THEN box ELSE <<>>]]
          /\ \E tbl \in {t \in CacheStates(box) :
                            \A k \in DOMAIN t \ {OtherKey} :
                               t[k].unread /\ ~t[k].body} :
                emails = [k \in Accounts \X {SyncBox}
                                   \X get_cached_uids(tbl, SyncAcct, SyncBox) |->
                             tbl[<<SyncAcct, k[2], k[3]>>]]
    /\ mailbox_metadata = {}
    /\ op_logs = <<>>
    /\ \E plan \in {P \in SUBSET (1..MaxCommands) : Cardinality(P) <= 2} :
          pass = [r \in Runners |->
                    IF \E v \in Twins : r = RunnerOf(v)
                      THEN LET v == CHOOSE w \in Twins : r = RunnerOf(w) IN
                           [IdlePass EXCEPT
                              !.pc = IF v \in OwnConnection THEN "idle"
                                     ELSE "select",
                              !.variant = v, !.acct = TwinAccount(v),
                              !.mailbox = SyncBox,
                              !.before = Before(emails, TwinAccount(v),
                                                SyncBox),
                              !.plan = plan]
                      ELSE IdlePass]

\* sync_emails_improved is called once sync_emails_with_session has
\* returned (the passes work on rows of different accounts)
sync_emails_improved_call(r) ==
    /\ pass[r].pc = "idle"
    /\ pass[RunnerOf("session")].pc = "done"
    /\ pass' = [pass EXCEPT ![r].pc = "connect"]
    /\ UNCHANGED <<remote, emails, mailbox_metadata, op_logs>>
    /\ UNCHANGED <<poolVars, queueVars, viewVars>>

NextTwin ==
    \/ sync_emails_improved_call(RunnerOf("improved"))
    \/ \E v \in Twins : TwinStep(RunnerOf(v))

SpecTwin == InitTwin /\ [][NextTwin]_vars

\* what a pass returned: its counts, or its error
Returned(p) ==
    IF p.result.ok
      THEN <<"ok", p.new_count, p.updated_count, Cardinality(p.server_uids),
             p.deleted_count>>
      ELSE <<"err", p.result.err>>

\* the rows cached for a mailbox of an account, by uid
RowsOfAccount(a, m) ==
    [u \in get_cached_uids(emails, a, m) |-> emails[<<a, m, u>>]]

\* both passes returned
TwinsDone ==
    /\ pass[RunnerOf("session")].pc = "done"
    /\ pass[RunnerOf("improved")].pc = "done"

\* the logout of sync_emails_improved failed
LogoutFailed ==
    /\ "LOGOUT" \in pass[RunnerOf("improved")].issued
    /\ ~pass[RunnerOf("improved")].result.ok

StaleStep ==
    \/ \E t \in Callers, m \in Mailboxes, k \in {"with", "sync"},
          found \in BOOLEAN : Call(t, SyncAcct, m, k, found)
    \/ \E t \in Callers : LockEntry(t)
    \/ \E t \in Callers, ok \in BOOLEAN : ReuseOrConnect(t, ok)
    \/ \E t \in Callers, s \in BOOLEAN, c \in BOOLEAN, r \in BOOLEAN :
          SelectMailbox(t, s, c, r)
    \/ \E t \in Callers, r \in Results : RunOp(t, r)
    \/ \E e \in EntryIds : Age(e, IdleTimes)

SpecStale == InitPoolAlone /\ [][StaleStep]_vars

\* the calls that found a session in their pool entry and are about to
\* select the mailbox or to run their operation
FoundSession ==
    {t \in Callers : callers[t].pc \in {"select", "op"} /\ callers[t].pooled}

\* the session the call of t works on
SessionOf(t) == entries[callers[t].entry].session

\* last_used.elapsed() of the entry when the call of t locked it (it stays
\* what it was until the call stamps last_used)
IdleOf(t) == entries[callers[t].entry].idle

\* the call logged out the session it found and works on one it opened:
\* the only live session of the account
Replaced(t) ==
    /\ callers[t].staleClosed
    /\ callers[t].opened >= 1
    /\ LiveSessions(callers[t].acct) = {SessionOf(t)}

\* the call went on with the session it found: it opened no other one
\* (unless the select failed on it, which has the call reconnect)
Reused(t) ==
    /\ ~callers[t].staleClosed
    /\ ~callers[t].selectFailed => callers[t].opened = 0

ClosedAll ==
    /\ closer.pc = "idle"
    /\ closer.runs > 0
    /\ \A a \in Accounts : CONNECTION_POOL[a] = NoEntry

\* C26: after close_all_connections returns the pool has no entry and no
\* session opened through the pool is live for any account, also when it
\* ran beside calls that had obtained their account's entry already.
C26_ClosedAfterCloseAll ==
    ClosedAll => \A a \in Accounts : LiveSessions(a) = {}

\* a call of account a holds the account's entry: its connect, select or
\* operation is in flight
Busy(a) == \E u \in Callers : callers[u].acct = a /\ callers[u].pc \in InCall

\* C27: operations of different accounts proceed independently: while a
\* remote operation is in flight on the pooled session of account a, a call
\* for another account b gets b's pool entry without waiting, because the
\* lock of the pool map is not held across remote I/O nor while waiting for
\* the session of another account.
C27_AccountsIndependent ==
    \A a, b \in Accounts : \A t \in Callers :
        (/\ a # b
         /\ Busy(a)
         /\ callers[t].pc = "idle"
         /\ \A u \in Callers : u < t => callers[u].pc # "idle")
            => /\ ENABLED Call(t, b, "INBOX", "with", TRUE)
               /\ poolLock = Unlocked

(***************************************************************************)
(* get_account_sender called by several threads.                           *)
(***************************************************************************)
MaxSenderCalls == 3

\* the lock of ACCOUNT_QUEUES is taken whoever holds it
MutexIgnored(l) == TRUE

\* ACCOUNT_QUEUES.lock().unwrap() returns when no thread holds the lock
MutexFree(l) == l = NoOwner

\* a thread calls get_account_sender(a)
sender_call(t, a) ==
    /\ spawner.pc[t] \in {"idle", "done"}
    /\ spawner.calls < MaxSenderCalls
    /\ spawner' = [spawner EXCEPT
                      !.pc[t] = "lock", !.acct[t] = a, !.got[t] = 0,
                      !.calls = @ + 1,
                      !.raced = @ \/ /\ spawner.sender[a] = 0
                                     /\ \E u \in Callers \ {t} :
                                           /\ spawner.acct[u] = a
                                           /\ spawner.pc[u] \in
                                                 {"lock", "get", "spawn"}]
    /\ UNCHANGED <<attachments, saving, loaded, reader, removal, marking>>
    /\ UNCHANGED <<poolVars, storeVars, queueVars>>

\* the thread takes the lock of the map
sender_lock(t) ==
    /\ spawner.pc[t] = "lock"
    /\ MutexFree(spawner.lock)
    /\ spawner' = [spawner EXCEPT !.lock = t, !.pc[t] = "get"]
    /\ UNCHANGED <<attachments, saving, loaded, reader, removal, marking>>
    /\ UNCHANGED <<poolVars, storeVars, queueVars>>

\* queues.get(account_name): the Sender of the map is cloned and returned,
\* the guard is dropped; or the account has none
sender_get(t) ==
    LET a == spawner.acct[t] IN
    /\ spawner.pc[t] = "get"
    /\ spawner' = IF spawner.sender[a] # 0
                    THEN [spawner EXCEPT !.pc[t] = "done", !.lock = NoOwner,
                                         !.got[t] = spawner.sender[a]]
                    ELSE [spawner EXCEPT !.pc[t] = "spawn"]
    /\ UNCHANGED <<attachments, saving, loaded, reader, removal, marking>>
    /\ UNCHANGED <<poolVars, storeVars, queueVars>>

\* mpsc::channel(100), tokio::spawn of account_worker on its Receiver,
\* queues.insert of the Sender, which is returned; the guard is dropped
sender_spawn(t) ==
    LET a == spawner.acct[t]
        w == spawner.workers[a] + 1
    IN
    /\ spawner.pc[t] = "spawn"
    /\ spawner' = [spawner EXCEPT !.pc[t] = "done", !.lock = NoOwner,
                                  !.workers[a] = w, !.sender[a] = w,
                                  !.got[t] = w]
    /\ ACCOUNT_QUEUES' = ACCOUNT_QUEUES \cup {a}
    /\ UNCHANGED <<channel, pending_ops, worker, submitted, received,
                   remoteCalls, emitted>>
    /\ UNCHANGED <<attachments, saving, loaded, reader, removal, marking>>
    /\ UNCHANGED <<poolVars, storeVars>>

InitSenders ==
    /\ InitPool
    /\ InitQueueIdle
    /\ InitStoreIdle
    /\ InitViewIdle

NextSenders ==
    \/ \E t \in Callers, a \in Accounts : sender_call(t, a)
    \/ \E t \in Callers : sender_lock(t)
    \/ \E t \in Callers : sender_get(t)
    \/ \E t \in Callers : sender_spawn(t)

SpecSenders == InitSenders /\ [][NextSenders]_vars

\* C28: every account has at most one worker and one queue, created by the
\* first get_account_sender call for it: threads that call it at the same
\* time spawn one worker, the map holds the Sender of that worker, and
\* every call for the account returns a Sender of that same worker.
C28_OneWorkerPerAccount ==
    /\ \A a \in Accounts :
          /\ spawner.workers[a] <= 1
          /\ a \in ACCOUNT_QUEUES <=> spawner.workers[a] = 1
          /\ spawner.sender[a] = spawner.workers[a]
    /\ \A t \in Callers :
          spawner.pc[t] = "done" => spawner.got[t] = 1

\* two threads called get_account_sender for the same account before
\* either had returned (the second waited for the lock); one worker was
\* spawned and both got its Sender, and a later call got it too
C28_Witness ==
    /\ spawner.raced
    /\ spawner.calls = MaxSenderCalls
    /\ \A t \in Callers : spawner.pc[t] = "done" /\ spawner.acct[t] = "a1"
    /\ spawner.workers["a1"] = 1
    /\ spawner.workers["a2"] = 0

(***************************************************************************)
(* The mailbox selected when with_imap_connection runs the operation.      *)
(***************************************************************************)
\* the calls of with_imap_connection that are about to run their operation
AtOperation == {t \in Callers : callers[t].pc = "op" /\ callers[t].kind = "with"}

\* C29: whenever with_imap_connection invokes the operation, the mailbox
\* selected on the session it passes is the mailbox argument of the call,
\* whatever was selected on the pooled session before; after a failed
\* select the call opens one new session and selects once more, and runs
\* the operation only on that new session with the mailbox selected.
C29_MailboxSelected ==
    \A t \in AtOperation :
        /\ SessionOf(t) # NoSession
        /\ sessions[SessionOf(t)].open
        /\ sessions[SessionOf(t)].selected = callers[t].mailbox
        /\ callers[t].selectFailed =>
              /\ LiveSessions(callers[t].acct) = {SessionOf(t)}
              /\ callers[t].opened =
                    1 + IF ~callers[t].pooled \/ callers[t].staleClosed
                          THEN 1 ELSE 0

\* a call is about to run its operation on the pooled session it found,
\* on which the other mailbox was selected when the call found it
C29_Witness ==
    \E t \in AtOperation :
        /\ callers[t].opened = 0
        /\ ~callers[t].selectFailed
        /\ callers[t].pooled
        /\ callers[t].other

(***************************************************************************)
(* The candidate set of a windowed pass.                                   *)
(***************************************************************************)
\* set B of a windowed pass: what its search returned (nothing when it
\* failed)
TimeBounded(p) == IF p.search_failed THEN {} ELSE UidSearchSince(Box(p))

\* the steps of a windowed pass that work with its candidate set
AfterDiff == {"download", "save", "flags", "evict", "prefetch", "bodies",
              "bookmark"}

\* C30: the candidate set a pass diffs and evicts with is A \cup B: the uids
\* of the last min(count, MIN_SYNC_EMAILS) messages by position together
\* with the uids the time-bounded search returned.
C30_CandidateSet ==
    \A r \in Runners :
        (pass[r].variant \in Windowed /\ pass[r].pc \in AfterDiff) =>
            pass[r].server_uids = CountBounded(pass[r]) \cup TimeBounded(pass[r])

(***************************************************************************)
(* sync_emails_with_session alone on a fixed mailbox, every remote command *)
(* of the pass answered or failed.  The pass remembers the table it        *)
(* started from.  Two families of start states: mailboxes whose messages   *)
(* may or may not parse, be seen or be recent, over caches of unread rows  *)
(* without a body; and mailboxes of messages that parse, over caches whose *)
(* rows may or may not be unread or have a body.                           *)
(***************************************************************************)
\* the pass of sync_emails_with_session is about to select the mailbox
SessionPassOn(boxes, caches) ==
    /\ InitPool
    /\ InitQueueIdle
    /\ InitViewIdle
    /\ \E box \in boxes :
          /\ remote = [a \in Accounts |-> [m \in Mailboxes |->
                          IF a = SyncAcct /\ m = SyncBox THEN box ELSE <<>>]]
          /\ emails \in caches[box]
    /\ mailbox_metadata = {}
    /\ op_logs = <<>>
    /\ pass = [r \in Runners |->
                 IF r = RunnerOf("session")
                   THEN [IdlePass EXCEPT
                           !.pc = "select", !.variant = "session",
                           !.acct = SyncAcct, !.mailbox = SyncBox,
                           !.before = Before(emails, SyncAcct, SyncBox),
                           !.start = emails]
                   ELSE IdlePass]

InitContent ==
    SessionPassOn(MailboxStates,
                  [box \in MailboxStates |->
                      {tbl \in CacheStates(box) :
                          \A k \in DOMAIN tbl \ {OtherKey} :
                              tbl[k].unread /\ ~tbl[k].body}])

InitCached ==
    SessionPassOn({b \in MailboxStates : \A i \in DOMAIN b : b[i].parses},
                  [box \in MailboxStates |-> CacheStates(box)])

NextContent == SessionStep(RunnerOf("session"), WorkerFaults)

SpecContent == InitContent /\ [][NextContent]_vars

SpecCached == InitCached /\ [][NextContent]_vars

(***************************************************************************)
(* A fetched message that does not parse.                                  *)
(***************************************************************************)
\* the uids of the messages of a sequence that parse
ParsedUids(msgs) == {msgs[i].uid : i \in {j \in DOMAIN msgs : msgs[j].parses}}

\* the candidates of a pass that were not cached when it started
NewCandidates(p) == p.server_uids \ DOMAIN p.before

\* a pass on a mailbox with messages returned success: every candidate
\* cached before or parsed is cached, nothing else is, the counts of new
\* and evicted rows are those of the parsed new candidates and of the
\* cached non-candidates, and the bookmark is written
PassCompleteBut(p, tbl, meta) ==
    (p.pc = "done" /\ p.result.ok /\ Len(Box(p)) > 0) =>
        /\ get_cached_uids(tbl, p.acct, p.mailbox)
              = (p.server_uids \cap DOMAIN p.before)
                   \cup (NewCandidates(p) \cap ParsedUids(Box(p)))
        /\ p.new_count
              = Cardinality(NewCandidates(p) \cap ParsedUids(Box(p)))
        /\ p.deleted_count = Cardinality(DOMAIN p.before \ p.server_uids)
        /\ <<p.acct, p.mailbox>> \in meta

BeforeFlags == {"download", "save", "flags"}

\* the steps of a pass after its flag update
AfterFlags == {"evict", "prefetch", "bodies", "bookmark"}

\* the candidates of the pass that were cached when it took its diff
CachedCandidates(p) == p.server_uids \cap p.cached_uids

\* the rows of CachedCandidates(p) whose flag differed from the server's
\* when the pass started
Differing(p) ==
    {u \in CachedCandidates(p) :
        p.start[<<p.acct, p.mailbox, u>>].unread # ServerUnread(p, u)}

\* C32: a candidate that was cached when the diff was taken is not fetched
\* in full by step 4 and its row is not rewritten: the pass changes its
\* unread flag alone, in the flag update and only when it differs from the
\* server's; its timestamp and a body it has are left as they were.
C32_CachedOnlyFlag ==
    LET p == pass[RunnerOf("session")] IN
    (p.pc \in BeforeFlags \cup AfterFlags \/ (p.pc = "done" /\ p.result.ok
                                                /\ Len(Box(p)) > 0)) =>
        /\ p.cached_uids = get_cached_uids(p.start, p.acct, p.mailbox)
        /\ \A i \in DOMAIN p.new_uids : p.new_uids[i] \notin p.cached_uids
        /\ p.pc = "save" => SeqUids(p.fetched) \cap p.cached_uids = {}
        /\ p.pc \notin BeforeFlags =>
              p.updated_count = Cardinality(Differing(p))
        /\ \A u \in CachedCandidates(p) :
              LET k == <<p.acct, p.mailbox, u>> IN
              /\ k \in DOMAIN emails
              /\ emails[k].age = p.start[k].age
              /\ p.start[k].body => emails[k].body
              /\ p.pc \in BeforeFlags \cup {"evict", "prefetch"} =>
                    emails[k].body = p.start[k].body
              /\ emails[k].unread =
                    IF p.pc \in BeforeFlags THEN p.start[k].unread
                    ELSE IF u \in Differing(p) THEN ~p.start[k].unread
                    ELSE p.start[k].unread

\* the pass returned success: of two cached candidates with a body, one had
\* the server's flag and kept its row, the other took the server's flag
C32_Witness ==
    LET p == pass[RunnerOf("session")] IN
    /\ p.pc = "done" /\ p.result.ok
    /\ CachedCandidates(p) = {1, 2}
    /\ Differing(p) = {2}
    /\ p.updated_count = 1 /\ p.new_count = 0
    /\ \A u \in {1, 2} :
          /\ p.start[<<p.acct, p.mailbox, u>>].body
          /\ emails[<<p.acct, p.mailbox, u>>].body
    /\ emails[<<p.acct, p.mailbox, 1>>] = p.start[<<p.acct, p.mailbox, 1>>]
    /\ emails[<<p.acct, p.mailbox, 2>>].unread
          # p.start[<<p.acct, p.mailbox, 2>>].unread

(***************************************************************************)
(* The prefetch step, beside one delete_email_from_cache of another        *)
(* thread at any moment of the pass: mailboxes of unseen messages that may *)
(* or may not parse or be recent, caches of unread rows with or without a  *)
(* body.                                                                   *)
(***************************************************************************)
InitPrefetch ==
    SessionPassOn({b \in MailboxStates : \A i \in DOMAIN b : ~b[i].seen},
                  [box \in MailboxStates |->
                      {tbl \in CacheStates(box) :
                          \A k \in DOMAIN tbl \ {OtherKey} : tbl[k].unread}])

\* the one delete_email_from_cache of the other thread
delete_beside_pass(u) ==
    /\ removal.calls = 0
    /\ delete_email_from_cache_call(SyncAcct, SyncBox, u, Ok)

NextPrefetch ==
    \/ SessionStep(RunnerOf("session"), WorkerFaults)
    \/ \E u \in Uids : delete_beside_pass(u)

SpecPrefetch == InitPrefetch /\ [][NextPrefetch]_vars

\* the uids cached for the mailbox whose row has no body
Bare(tbl, a, m) == {u \in get_cached_uids(tbl, a, m) : ~tbl[<<a, m, u>>].body}

\* C33: the prefetch step is entered from the eviction only; it fetches at
\* most PREFETCH_BODY_COUNT messages, those of the most recent cached rows
\* of the mailbox that have no body; storing what it fetched sets the body
\* of such rows that still exist and changes nothing else: no row is
\* inserted or removed, no unread flag and no timestamp changes; whether
\* its fetch fails or not the pass goes on to the bookmark with no error.
C33_PrefetchFrame ==
    [][LET r == RunnerOf("session")
           p == pass[r]
           q == pass'[r]
           T == SeqUids(q.fetched)
           bare == Bare(emails, p.acct, p.mailbox)
       IN
       /\ (p.pc # "prefetch" /\ q.pc = "prefetch") => p.pc = "evict"
       /\ (p.pc = "prefetch" /\ q.pc # "prefetch") =>
             /\ emails' = emails /\ mailbox_metadata' = mailbox_metadata
             /\ q.result = NoResult
             /\ q.pc \in {"bodies", "bookmark"}
             /\ q.pc = "bodies" =>
                   /\ Cardinality(T) = Min(PREFETCH_BODY_COUNT,
                                           Cardinality(bare))
                   /\ T \subseteq bare
                   /\ \A u \in T, w \in bare \ T :
                         emails[<<p.acct, p.mailbox, u>>].age
                            <= emails[<<p.acct, p.mailbox, w>>].age
       /\ (p.pc = "bodies" /\ q.pc # "bodies") =>
             /\ q.pc = "bookmark" /\ q.result = NoResult
             /\ DOMAIN emails' = DOMAIN emails
             /\ \A k \in DOMAIN emails :
                   /\ emails'[k].unread = emails[k].unread
                   /\ emails'[k].age = emails[k].age
                   /\ emails'[k] # emails[k] =>
                         /\ k[1] = p.acct /\ k[2] = p.mailbox
                         /\ k[3] \in ParsedUids(p.fetched)
                         /\ ~emails[k].body /\ emails'[k].body
             /\ \A u \in ParsedUids(p.fetched) \cap bare :
                   emails'[<<p.acct, p.mailbox, u>>].body]_vars

\* the pass fetched the body of the most recent row without one, leaving
\* an older such row aside, and the row was deleted by the other thread
\* before the pass stores the body
C33_Witness ==
    LET p == pass[RunnerOf("session")] IN
    /\ p.pc = "bodies"
    /\ removal.calls = 1
    /\ \E u \in SeqUids(p.fetched), w \in Bare(emails, p.acct, p.mailbox) :
          /\ u \notin get_cached_uids(emails, p.acct, p.mailbox)
          /\ w \notin SeqUids(p.fetched)

(***************************************************************************)
(* A failed fetch of a batch of new messages.                              *)
(***************************************************************************)
\* the pass returned an error after its search: the failures of the search
\* and of steps 3 and 6 are skipped, so the error is that of a batch fetch
\* of step 4
BatchFetchFailed(p) ==
    p.pc = "done" /\ ~p.result.ok /\ "UID SEARCH" \in p.issued

\* the new uids whose batch was fetched before the failing one
EarlierBatches(p) ==
    {u \in NewCandidates(p) : \A i \in DOMAIN p.new_uids : p.new_uids[i] # u}

\* a pass stopped by a failed batch fetch: nothing was evicted, no flag was
\* updated, no bookmark was written, and the cache is the one the pass
\* started from plus the parsed messages of the batches fetched before
StoppedAtBatch(p, tbl, meta) ==
    LET kept == EarlierBatches(p) \cap ParsedUids(Box(p)) IN
    BatchFetchFailed(p) =>
        /\ p.result \in Results
        /\ p.new_uids # <<>>
        /\ p.deleted_count = 0 /\ p.updated_count = 0
        /\ meta = {}
        /\ DOMAIN tbl
              = DOMAIN p.start \cup {<<p.acct, p.mailbox, u>> : u \in kept}
        /\ \A k \in DOMAIN p.start : tbl[k] = p.start[k]
        /\ \A i \in DOMAIN Box(p) :
              Box(p)[i].uid \in kept =>
                 tbl[<<p.acct, p.mailbox, Box(p)[i].uid>>]
                    = Row(~Box(p)[i].seen, TRUE, Box(p)[i].age)
        /\ p.new_count = Cardinality(kept)

\* C34: when the fetch of a batch of new messages fails the pass returns
\* that error at once, the failing and the later batches still due: nothing
\* was evicted, no flag was updated, no bookmark was written, and the cache
\* is the one the pass started from plus the parsed messages of the batches
\* fetched before.
C34_BatchFailureStops ==
    [][LET r == RunnerOf("session") IN
       /\ \A f \in Results :
             (sync_download(r, f) /\ ~f.ok) =>
                 /\ pass'[r].pc = "done" /\ pass'[r].result = f
                 /\ pass'[r].new_uids = pass[r].new_uids
       /\ StoppedAtBatch(pass'[r], emails', mailbox_metadata')]_vars

\* the fetch of the second batch failed after the message of the first was
\* upserted, with a row cached for another mailbox left as it was
C34_Witness ==
    LET p == pass[RunnerOf("session")] IN
    /\ BatchFetchFailed(p)
    /\ p.new_count = 1
    /\ EarlierBatches(p) = {2}
    /\ get_cached_uids(emails, p.acct, p.mailbox) = {2}
    /\ Len(p.new_uids) = 1
    /\ OtherKey \in DOMAIN emails

(***************************************************************************)
(* When the worker runs the pending intents.                               *)
(***************************************************************************)
\* the worker of a takes a step that runs a pending intent remotely
RunsIntent(a) ==
    /\ Len(remoteCalls'[a]) = Len(remoteCalls[a]) + 1
    /\ NonSync(remoteCalls'[a][Len(remoteCalls'[a])].op)

\* the worker of a receives in this step the intent at the head of its
\* channel
Receives(a) == received'[a] # received[a]

\* C35: a pending intent is run only inside a flush, and a flush begins
\* only when a sync intent is received or when nothing arrived for the
\* 100 ms of the timeout; the flush takes every pending intent, and the
\* worker receives nothing more until all of them were run.  Receiving an
\* intent that is not a sync only adds it to the pending map: as long as
\* such intents keep arriving, none is run.
C35_FlushOnTrigger ==
    [][\A a \in QueueAccounts :
          LET w == worker[a] IN
          /\ RunsIntent(a) =>
                /\ w.pc = "flush"
                /\ \E k \in DOMAIN w.batch :
                      /\ remoteCalls'[a][Len(remoteCalls'[a])].op = w.batch[k]
                      /\ worker'[a].batch = MapRemove(w.batch, k)
          /\ (w.pc # "flush" /\ worker'[a].pc = "flush") =>
                /\ w.pc = "recv"
                /\ DOMAIN pending_ops[a] # {}
                /\ worker'[a].batch = pending_ops[a]
                /\ pending_ops'[a] = EmptyMap
                /\ IF Receives(a)
                     THEN Head(channel[a]).kind = "sync"
                     ELSE channel[a] = <<>>
          /\ (Receives(a) /\ Head(channel[a]).kind = "sync"
                /\ DOMAIN pending_ops[a] # {}) => worker'[a].pc = "flush"
          /\ (Receives(a) /\ Head(channel[a]).kind # "sync") =>
                /\ worker'[a] = w
                /\ remoteCalls'[a] = remoteCalls[a]
                /\ PendingKey(Head(channel[a])) \in DOMAIN pending_ops'[a]
          /\ w.pc = "flush" =>
                /\ ~Receives(a)
                /\ pending_ops'[a] = pending_ops[a]
                /\ worker'[a].pc # "flush" => w.batch = EmptyMap]_vars

\* two intents on different messages were received one after the other
\* without a timeout between them, and both were run in the flush that the
\* timeout after the second began
C35_Witness ==
    \E a \in QueueAccounts :
        LET R == received[a]
            C == remoteCalls[a]
        IN
        /\ Len(R) = 2 /\ Len(C) = 2
        /\ NonSync(R[1].op) /\ NonSync(R[2].op)
        /\ R[1].window = R[2].window
        /\ PendingKey(R[1].op) # PendingKey(R[2].op)
        /\ {C[1].op, C[2].op} = {R[1].op, R[2].op}
        /\ worker[a].pc = "recv"

(***************************************************************************)
(* The unread flags once the queue is at rest.                             *)
(***************************************************************************)
\* every intent submitted for a was received and run with success, the
\* worker waits on its empty channel with nothing pending, and no sync
\* pass is running
AtRest(a) ==
    /\ channel[a] = <<>>
    /\ pending_ops[a] = EmptyMap
    /\ worker[a].pc = "recv"
    /\ Len(received[a]) = submitted
    /\ \A i \in DOMAIN remoteCalls[a] :
          NonSync(remoteCalls[a][i].op) => remoteCalls[a][i].result.ok
    /\ \A r \in Runners : pass[r].pc \in {"idle", "done"}

\* C36: once every queued intent of an account was run with success and no
\* sync pass is running, the unread flag of every cached message of the
\* account is the server's.
C36_FlagsConverge ==
    \A a \in QueueAccounts :
        AtRest(a) =>
            \A m \in QueueMailboxes :
                \A i \in DOMAIN remote[a][m] :
                    LET msg == remote[a][m][i] IN
                    <<a, m, msg.uid>> \in DOMAIN emails =>
                        emails[<<a, m, msg.uid>>].unread = ~msg.seen

(***************************************************************************)
(* The three locks together: callers of with_imap_connection and           *)
(* sync_with_pool, close_all_connections, and a pass of                    *)
(* sync_emails_improved on an empty mailbox, which holds the DB lock over  *)
(* its logout.  Every thread takes its steps (remote calls return).        *)
(***************************************************************************)
InitLocks ==
    /\ InitPool
    /\ InitQueueIdle
    /\ InitViewIdle
    /\ remote = [a \in Accounts |-> [m \in Mailboxes |-> <<>>]]
    /\ emails = EmptyTable
    /\ mailbox_metadata = {}
    /\ op_logs = <<>>
    /\ pass = [r \in Runners |->
                 IF r = UiThread
                   THEN [IdlePass EXCEPT !.pc = "connect",
                                         !.variant = "improved",
                                         !.acct = SyncAcct,
                                         !.mailbox = SyncBox]
                   ELSE IdlePass]

\* one step of the call of thread t
PoolCall(t) ==
    \/ \E k \in {"with", "sync"}, found \in BOOLEAN :
          Call(t, SyncAcct, SyncBox, k, found)
    \/ LockEntry(t)
    \/ \E ok \in BOOLEAN : ReuseOrConnect(t, ok)
    \/ \E sl \in BOOLEAN, c \in BOOLEAN, r \in BOOLEAN :
          SelectMailbox(t, sl, c, r)
    \/ \E r \in WorkerFaults : RunOp(t, r)

\* one step of the pass of sync_emails_improved
EmptyPass ==
    \/ \E f \in WorkerFaults : sync_connect(UiThread, f)
    \/ \E f \in WorkerFaults : sync_select(UiThread, f)
    \/ \E f \in WorkerFaults : sync_logout(UiThread, f)

NextLocks ==
    \/ \E t \in Callers : PoolCall(t)
    \/ CloseAllStep
    \/ EmptyPass

SpecLocks == InitLocks /\ [][NextLocks]_vars

\* the threads do not all stop while one of them can take a step: a remote
\* call returns, a thread that is not waiting for a lock runs on
FairLocks == SpecLocks /\ WF_vars(NextLocks)

\* the order of the locks: the pool map, a pool entry, the cache store
LockSequence == <<"map", "entry", "store">>

Rank(l) == CHOOSE i \in DOMAIN LockSequence : LockSequence[i] = l

MapRank == Rank("map")
EntryRank == Rank("entry")
StoreRank == Rank("store")

\* the ranks of the locks caller t holds (the map lock is held inside Call
\* only) and of the lock it is about to take
CallerHeld(t) ==
    IF \E e \in EntryIds : entries[e].owner = t THEN {EntryRank} ELSE {}

CallerWanted(t) ==
    IF callers[t].pc = "idle" THEN {MapRank}
    ELSE IF callers[t].pc = "lock" THEN {EntryRank}
    ELSE IF callers[t].pc = "op" /\ TakesDbLock(callers[t]) THEN {StoreRank}
    ELSE {}

\* the same of close_all_connections
CloserHeld == IF poolLock = Closer THEN {MapRank} ELSE {}

CloserWanted ==
    IF closer.pc = "idle" THEN {MapRank}
    ELSE IF drained # {} THEN {EntryRank} ELSE {}

\* the same of the pass of runner r
PassHeld(r) == IF pass[r].db THEN {StoreRank} ELSE {}

PassWanted(r) == IF pass[r].pc = "select" THEN {StoreRank} ELSE {}

\* the lock wanted comes after every lock held
Ordered(held, wanted) == \A h \in held, w \in wanted : h < w

\* no thread waits for a lock while it holds one of the same or a later rank
LockOrder ==
    /\ \A t \in Callers : Ordered(CallerHeld(t), CallerWanted(t))
    /\ Ordered(CloserHeld, CloserWanted)
    /\ \A r \in Runners : Ordered(PassHeld(r), PassWanted(r))

\* no lock is held
LocksFree ==
    /\ poolLock = Unlocked
    /\ \A e \in EntryIds : entries[e].owner = NoOwner
    /\ DbFree

\* every call, every close_all_connections and the pass have returned
AllReturned ==
    /\ \A t \in Callers : callers[t].pc = "done"
    /\ closer.pc = "idle" /\ closer.runs = MaxCloseAll
    /\ pass[UiThread].pc = "done"

\* C37: the pool-map lock, the pool-entry locks and the store lock are taken
\* in that order only, every lock that is held is released again, and every
\* call, close_all_connections and pass returns (no deadlock), given that
\* every thread keeps taking its steps
C37_LocksOrderedAndReleased ==
    /\ [] LockOrder
    /\ (poolLock # Unlocked) ~> (poolLock = Unlocked)
    /\ \A e \in EntryIds :
          (entries[e].owner # NoOwner) ~> (entries[e].owner = NoOwner)
    /\ (~DbFree) ~> DbFree
    /\ <>[](AllReturned /\ LocksFree)

\* close_all_connections holds the map lock and waits for an entry that a
\* call of sync_with_pool holds, which waits for the store lock the pass on
\* the empty mailbox holds over its logout
C37_Witness ==
    /\ poolLock = Closer
    /\ pass[UiThread].db
    /\ \E t \in Callers :
          /\ callers[t].pc = "op"
          /\ TakesDbLock(callers[t])
          /\ entries[callers[t].entry].owner = t
          /\ callers[t].entry \in drained

\* the message is not in the cache
Uncached(a, m, u) == <<a, m, u>> \notin DOMAIN emails

\* the command queued nothing
NothingQueued == channel' = channel /\ ACCOUNT_QUEUES' = ACCOUNT_QUEUES

\* the command handed the intent to the account's queue: its worker exists
\* and the intent is the last of the channel (try_send drops it when the
\* channel is full)
Queued(a, op) ==
    /\ a \in ACCOUNT_QUEUES'
    /\ Len(channel[a]) < CHANNEL_CAPACITY => channel'[a] = Append(channel[a], op)

\* C38: for a message that is not cached, mark_email_read_async returns a
\* not-found error and queues no mark-read intent, while delete_email and
\* permanent_delete_email return success and still queue their move-to-trash
\* and delete intents; none of them changes the cache
C38_UncachedCommands ==
    [][\A a \in QueueAccounts, m \in QueueMailboxes, u \in Uids :
          Uncached(a, m, u) =>
            /\ \A un \in BOOLEAN :
                  mark_email_read_async(a, m, u, un) =>
                    /\ mark_email_read_async_result(emails, a, m, u)
                         = Err("no rows")
                    /\ NothingQueued
                    /\ emails' = emails
            /\ delete_email(a, m, u) =>
                    /\ delete_email_result(emails, a, m, u) = Ok
                    /\ Queued(a, MoveToTrash(m, u, submitted + 1))
                    /\ emails' = emails
            /\ permanent_delete_email(a, m, u) =>
                    /\ permanent_delete_email_result(emails, a, m, u) = Ok
                    /\ Queued(a, Delete(m, u, submitted + 1))
                    /\ emails' = emails]_vars

\* the worker has received the move-to-trash of a message, whose row
\* delete_email removed, and the delete of the same message, submitted when
\* the row was gone already, waits in the channel
C38_Witness ==
    \E a \in QueueAccounts, m \in QueueMailboxes, u \in Uids :
        /\ Uncached(a, m, u)
        /\ submitted = 2
        /\ Len(received[a]) = 1
        /\ received[a][1].op = MoveToTrash(m, u, 1)
        /\ channel[a] = <<Delete(m, u, 2)>>

(***************************************************************************)
(* Eviction after a failed search or a failed fetch of its uids.           *)
(***************************************************************************)
\* the rows the pass started with that it keeps when the search and the
\* fetch of the uids it returned both answer: those of the last
\* MIN_SYNC_EMAILS messages and of the messages inside the window
KeptWhenAnswered(p) ==
    get_cached_uids(p.start, p.acct, p.mailbox)
        \cap (CountBounded(p) \cup UidSearchSince(Box(p)))

\* C39: a pass whose time-bounded search failed, or whose fetch of the uids
\* the search returned failed, evicts no cached message it keeps when that
\* call answers: a cached message inside the window and outside the last
\* MIN_SYNC_EMAILS by position stays cached.
C39_FailureNeverEvicts ==
    \A r \in Runners :
        LET p == pass[r] IN
        (p.variant \in Windowed /\ p.pc \notin {"idle", "connect", "select"})
            => KeptWhenAnswered(p)
                 \subseteq get_cached_uids(emails, p.acct, p.mailbox)

(***************************************************************************)
(* The attachment rows and their message rows: save_email_to_db statement  *)
(* by statement, delete_email_from_cache (the optimistic delete of the     *)
(* commands and the delete the worker repeats after the remote one) and    *)
(* delete_stale_emails, each under the DB lock, on one mailbox.            *)
(***************************************************************************)
\* the rows are deleted and their attachment rows stay (foreign keys not
\* enforced)
delete_stale_emails_keeping_parts(a, m, server_uids) ==
    /\ saving.pc = "idle"
    /\ removal.calls < MaxRemovals
    /\ emails' = delete_stale_emails(emails, a, m, server_uids)
    /\ attachments' = attachments
    /\ removal' = [acct |-> a, mailbox |-> m, uid |-> 0, result |-> Ok,
                   calls |-> removal.calls + 1, stmt |-> Ok,
                   start |-> <<emails, attachments>>, repeat |-> FALSE]
    /\ UNCHANGED <<saving, loaded, reader, marking, spawner>>
    /\ UNCHANGED <<remote, mailbox_metadata, op_logs, pass>>
    /\ UNCHANGED <<poolVars, queueVars>>

\* delete_stale_emails, called by a pass that holds the DB lock: the rows
\* whose uid is not in server_uids are deleted, and their attachment rows
\* with them (ON DELETE CASCADE); the call is on record with uid 0
delete_stale_emails_call(a, m, server_uids) ==
    /\ saving.pc = "idle"
    /\ removal.calls < MaxRemovals
    /\ emails' = delete_stale_emails(emails, a, m, server_uids)
    /\ attachments' = cascade_stale_emails(attachments, emails, a, m,
                                           server_uids)
    /\ removal' = [acct |-> a, mailbox |-> m, uid |-> 0, result |-> Ok,
                   calls |-> removal.calls + 1, stmt |-> Ok,
                   start |-> <<emails, attachments>>, repeat |-> FALSE]
    /\ UNCHANGED <<saving, loaded, reader, marking, spawner>>
    /\ UNCHANGED <<remote, mailbox_metadata, op_logs, pass>>
    /\ UNCHANGED <<poolVars, queueVars>>

\* caches of the mailbox: any rows, any of them with one attachment
InitOrphans ==
    /\ InitPool
    /\ InitQueueIdle
    /\ remote = [a \in Accounts |-> [m \in Mailboxes |-> <<>>]]
    /\ mailbox_metadata = {}
    /\ op_logs = <<>>
    /\ pass = [r \in Runners |-> IdlePass]
    /\ \E keys \in SUBSET ({SyncAcct} \X {SyncBox} \X Uids) :
          /\ emails = [k \in keys |-> Row(TRUE, TRUE, 0)]
          /\ \E parents \in SUBSET keys :
                attachments =
                   [k \in {<<j[1], j[2], j[3], PartIdOf(1)>> : j \in parents}
                       |-> 1]
    /\ saving = IdleSaving
    /\ loaded = NothingLoaded
    /\ reader = IdleReader
    /\ removal = NoRemoval
    /\ marking = NoMarking
    /\ spawner = NoSpawner

\* the calls followed: MaxRemovals calls of the three functions in all
StoreCallsLeft == saving.calls + removal.calls < MaxRemovals

\* a pass saves a message it parsed
upsert_call(u, email) ==
    StoreCallsLeft /\ save_email_to_db_call(SyncAcct, SyncBox, u, email)

\* delete_email, permanent_delete_email or the worker after the remote
\* delete
delete_call(u, f) ==
    StoreCallsLeft /\ delete_email_from_cache_call(SyncAcct, SyncBox, u, f)

\* step 5 of a pass
evict_call(server_uids) ==
    StoreCallsLeft /\ delete_stale_emails_call(SyncAcct, SyncBox, server_uids)

NextOrphans ==
    \/ \E u \in Uids, email \in {e \in Emails : e.row.unread} :
          upsert_call(u, email)
    \/ \E f \in SaveFaults : insert_or_replace(f)
    \/ \E f \in SaveFaults : delete_attachments(f)
    \/ \E f \in SaveFaults : insert_attachment(f)
    \/ save_email_to_db_return
    \/ \E u \in Uids, f \in SaveFaults : delete_call(u, f)
    \/ \E server_uids \in SUBSET Uids : evict_call(server_uids)

SpecOrphans == InitOrphans /\ [][NextOrphans]_vars

\* the key of the message row an attachment row refers to
ParentKey(k) == <<k[1], k[2], k[3]>>

\* C40: every attachment row belongs to a message row of the same account,
\* mailbox and uid, in every state of the store: between the statements of
\* a save, after a save that failed, after an optimistic delete, after the
\* delete of a key that has no row, and after an eviction.
C40_NoOrphanAttachment ==
    \A k \in DOMAIN attachments : ParentKey(k) \in DOMAIN emails

\* an eviction deleted a message row that had an attachment row and kept
\* another one with its attachment row
C40_Witness ==
    /\ removal.calls > 0 /\ removal.uid = 0
    /\ \E k \in DOMAIN removal.start[2] :
          /\ ParentKey(k) \notin DOMAIN emails
          /\ k \notin DOMAIN attachments
    /\ attachments # NoAttachments

====
